---- MODULE Spec2Model ----
(***************************************************************************)
(* Model of the B2 IoT gateway (src/B2-iot-gateway/server.js): the         *)
(* WebSocket session handling, the connectedCars registry, telemetry       *)
(* ingest (store insert + bus publish) and command routing from the HTTP   *)
(* API, the Redis command subscription and the MQTT cloud bridge; and of   *)
(* the B1 web server (src/unnamed/part_001): its startup, its car lookup   *)
(* and its command endpoint; and of updateRentalAvailability of the B4     *)
(* static database (src/B4-static-database/queries.js) on the seeded       *)
(* rental_info table.                                                      *)
(*                                                                         *)
(* The Redis command subscription is modelled as the README documents it   *)
(* ("Subscribes to commands on car:*:commands"): every message published   *)
(* on car:<plate>:commands, the gateway's own publications included, is    *)
(* handed to handleCarCommand once the subscription exists.                *)
(***************************************************************************)
EXTENDS Integers, Sequences, FiniteSets, TLC

\* ------------------------------------------------------------------ bounds
MaxConns  == 2   \* WebSocket connections accepted in one run
MaxFrames == 2   \* inbound WebSocket messages in one run
MaxCmds   == 2   \* commands (API requests, bus messages, cloud messages) in one run
MaxApi    == 1   \* of which API requests
MaxWebReqs == 2  \* HTTP requests to the web server in one run
MaxRentalCalls == 2  \* updateRentalAvailability calls in one run

Conns == 1..MaxConns

\* ------------------------------------------------------------- JSON values
\* A JSON value keeps its JavaScript type, so that typeof and truthiness are
\* computed as the code computes them.
Num(x) == [t |-> "number", n |-> x, s |-> <<>>]
Str(x) == [t |-> "string", n |-> 0, s |-> x]
Undef  == [t |-> "undefined", n |-> 0, s |-> <<>>]

Truthy(v) ==
    \/ v.t = "number" /\ v.n # 0
    \/ v.t = "string" /\ v.s # <<>>

\* Strings that the code inspects are sequences of characters.
ABC123  == <<"A", "B", "C", "-", "1", "2", "3">>
XYZ789  == <<"X", "Y", "Z", "-", "7", "8", "9">>
NoDash  == <<"A", "B", "C", "1", "2", "3">>
Warm    == <<"w", "a", "r", "m">>
ClientTime == <<"c", "l", "o", "c", "k">>
ServerTime == <<"n", "o", "w">>
StartHeating == <<"s", "t", "a", "r", "t">>

NoGps == [present |-> FALSE, lat |-> Undef, lng |-> Undef]
Gps(lat, lng) == [present |-> TRUE, lat |-> lat, lng |-> lng]

\* An inbound WebSocket payload: either text JSON.parse rejects, or a flat
\* object with the documented fields (README "WebSocket (Cars -> B2)").
Frame(plate, indoor, outdoor, gps, ts) ==
    [parses |-> TRUE, licensePlate |-> plate, indoorTemp |-> indoor,
     outdoorTemp |-> outdoor, gps |-> gps, timestamp |-> ts]
Garbage == [parses |-> FALSE, licensePlate |-> Undef, indoorTemp |-> Undef,
            outdoorTemp |-> Undef, gps |-> NoGps, timestamp |-> Undef]

Frames ==
    { Frame(Str(ABC123), Num(22), Num(15), Gps(Num(60), Num(24)), Str(ClientTime)),
      Frame(Str(XYZ789), Num(22), Undef, NoGps, Undef),
      Frame(Str(ABC123), Str(Warm), Undef, NoGps, Undef),
      Frame(Str(ABC123), Num(22), Num(150), NoGps, Undef),
      Frame(Str(ABC123), Num(22), Undef, Gps(Num(100), Num(24)), Undef),
      Frame(Str(ABC123), Num(22), Undef, Gps(Num(60), Str(Warm)), Undef),
      Frame(Undef, Num(22), Undef, NoGps, Undef),
      Frame(Str(NoDash), Num(22), Undef, NoGps, Undef),
      Garbage }

VARIABLES
    startPc,        \* position of startServer: in initConnections, then in
                    \* processFromC2, then listening (or stopped)
    mongoClient,    \* TRUE when the variable holds a client object
    redisClient,
    mqttClient,
    subscribed,     \* the car:*:commands subscription exists
    mqttConnected,  \* the MQTT 'connect' event fired (car/+/data subscribed)
    readyState,     \* per WebSocket: "NONE", "OPEN", "CLOSING", "CLOSED"
    connectedCars,  \* the Map ws -> licensePlate, in insertion order
    handlers,       \* message handlers suspended at await storeCarData
    nFrames,        \* inbound messages received so far
    store,          \* car_data collection, in insert order
    busData,        \* publications on car:<plate>:data, in publish order
    errors,         \* console.error calls of the message handler, by frame
    apiPending,     \* POST .../command handlers suspended at await publish
    nCmds,          \* commands received so far
    busCmds,        \* gateway publications on car:<plate>:commands not yet
                    \* handed to the gateway's own subscription
    published,      \* ids of the commands the gateway published on the bus
    responses,      \* HTTP responses given, by command id
    outbox,         \* per WebSocket: the messages sent on it, in order
    \* The B1 web server (src/unnamed/part_001):
    webPc,          \* position of initDatabases
    webMongoClient, \* TRUE when the variable holds a client object
    webPgClient,
    webRedisClient,
    webRealtime,    \* car_data as B1 reads it: per plate, the latest document
    webStatic,      \* cars: the plates that have a row
    nWebReqs,       \* HTTP requests received so far
    webResponses,   \* HTTP responses given, by request
    webBus,         \* B1 publications on car:<plate>:commands, in order
    \* The B4 static database (src/B4-static-database):
    rentalInfo,     \* table rental_info: per license_plate, its row
    rentalCalls     \* the updateRentalAvailability calls made, in order

webVars == <<webPc, webMongoClient, webPgClient, webRedisClient, webRealtime,
             webStatic, nWebReqs, webResponses, webBus>>

vars == <<startPc, mongoClient, redisClient, mqttClient, subscribed,
          mqttConnected, readyState, connectedCars, handlers, nFrames, store,
          busData, errors, apiPending, nCmds, busCmds, published, responses, outbox,
          webPc, webMongoClient, webPgClient, webRedisClient, webRealtime,
          webStatic, nWebReqs, webResponses, webBus, rentalInfo, rentalCalls>>

rentalVars == <<rentalInfo, rentalCalls>>

startVars == <<startPc, mongoClient, redisClient, mqttClient, subscribed, mqttConnected>>
ingestVars == <<handlers, nFrames, store, busData, errors>>
cmdVars == <<apiPending, nCmds, busCmds, published, responses>>
gatewayVars == <<startVars, readyState, connectedCars, outbox, ingestVars, cmdVars>>

\* ------------------------------------------------------------------- Init
\* The module body has run: wss exists, connectedCars is empty, and
\* startServer() has entered initConnections up to its first await. The
\* MongoClient constructor throws on a malformed MONGO_URL, which the catch
\* of initConnections swallows with every client still undefined.
\* ------------------------------------------------------------ web server
\* Plates asked of the web server: a mock plate, the same in lower case and
\* the unknown plate of its test suite.
Def456       == <<"D", "E", "F", "-", "4", "5", "6">>
LowerAbc123  == <<"a", "b", "c", "-", "1", "2", "3">>
UnknownPlate == <<"U", "N", "K", "N", "O", "W", "N", "-", "1", "2", "3">>
WebPlates == {ABC123, LowerAbc123, UnknownPlate}

\* The keys of mockCarData.
MockPlates == {ABC123, XYZ789, Def456}

\* Command names sent to the web server: the valid and the invalid one of
\* its test suite.
InvalidCommand == <<"i", "n", "v", "a", "l", "i", "d">>
WebCommands == {Str(StartHeating), Str(InvalidCommand), Undef}

\* The latest car_data document of a plate: none, one with numeric
\* indoorTemp and outdoorTemp, or one that lacks a temperature (the gateway
\* stores frames as they come).
RealtimeKinds == {"none", "full", "partial"}

\* String.prototype.toUpperCase.
LowerLetters == <<"a", "b", "c", "d", "e", "f", "g", "h", "i", "j", "k", "l", "m",
                  "n", "o", "p", "q", "r", "s", "t", "u", "v", "w", "x", "y", "z">>
UpperLetters == <<"A", "B", "C", "D", "E", "F", "G", "H", "I", "J", "K", "L", "M",
                  "N", "O", "P", "Q", "R", "S", "T", "U", "V", "W", "X", "Y", "Z">>
toUpperCase(str) ==
    [i \in 1..Len(str) |->
        IF \E k \in 1..Len(LowerLetters) : LowerLetters[k] = str[i]
          THEN UpperLetters[CHOOSE k \in 1..Len(LowerLetters) : LowerLetters[k] = str[i]]
          ELSE str[i]]

\* The web server's module body has run and startServer() has entered
\* initDatabases up to its first await (or its catch, when the MongoClient
\* constructor threw); realtime and static are what B3 and B4 hold.
InitWebServer(realtime, static) ==
    /\ \/ webPc = "mongo" /\ webMongoClient = TRUE
       \/ webPc = "failed" /\ webMongoClient = FALSE
    /\ webPgClient = FALSE
    /\ webRedisClient = FALSE
    /\ webRealtime = realtime
    /\ webStatic = static
    /\ nWebReqs = 0
    /\ webResponses = {}
    /\ webBus = <<>>

\* ------------------------------------------------------------ rental_info
\* SQL NULL, and the JavaScript values true and false.
Null == [t |-> "null", n |-> 0, s |-> <<>>]
Bool(b) == [t |-> "boolean", n |-> IF b THEN 1 ELSE 0, s |-> <<>>]

\* if (isAvailable): the truthiness of any JavaScript value.
ToBoolean(v) ==
    \/ v.t = "boolean" /\ v.n = 1
    \/ Truthy(v)

\* Plates, renter names, phone numbers and dates of the seeded rows and of
\* a new renter, abbreviated: the code compares none of them.
Ghi789 == <<"G", "H", "I", "-", "7", "8", "9">>
Jkl012 == <<"J", "K", "L", "-", "0", "1", "2">>
Laura  == <<"L", "a", "u", "r", "a">>
Jussi  == <<"J", "u", "s", "s", "i">>
Matti  == <<"M", "a", "t", "t", "i">>
Phone1 == <<"7", "7", "7">>
Phone2 == <<"9", "9", "9">>
Phone3 == <<"5", "5", "5">>
Nov01  == <<"1", "1", "-", "0", "1">>
Nov07  == <<"1", "1", "-", "0", "7">>
Oct28  == <<"1", "0", "-", "2", "8">>
Nov10  == <<"1", "1", "-", "1", "0">>
FalseText == <<"f", "a", "l", "s", "e">>

\* A row of rental_info: the columns updateRentalAvailability writes.
RentalRow(available, name, phone, startDate, endDate) ==
    [is_available |-> available, current_renter_name |-> name,
     current_renter_phone |-> phone, rental_start_date |-> startDate,
     rental_end_date |-> endDate]

\* init-db.sql, "Insert rental information": the five seeded rows.
SeededRentalInfo ==
    (ABC123 :> RentalRow(TRUE, Null, Null, Null, Null)) @@
    (XYZ789 :> RentalRow(FALSE, Str(Laura), Str(Phone1), Str(Nov01), Str(Nov07))) @@
    (Def456 :> RentalRow(TRUE, Null, Null, Null, Null)) @@
    (Ghi789 :> RentalRow(TRUE, Null, Null, Null, Null)) @@
    (Jkl012 :> RentalRow(FALSE, Str(Jussi), Str(Phone2), Str(Oct28), Str(Nov10)))

InitRentalInfo ==
    /\ rentalInfo = SeededRentalInfo
    /\ rentalCalls = <<>>

\* The arguments of a call: a plate with or without a row; isAvailable as a
\* boolean, as the text 'false' or as 0; renterData absent (the default
\* null), complete, or an object without fields.
RentalPlates == {ABC123, XYZ789, UnknownPlate}
IsAvailableValues == {Bool(TRUE), Bool(FALSE), Str(FalseText), Num(0)}
NoRenterData == [present |-> FALSE, name |-> Undef, phone |-> Undef,
                 startDate |-> Undef, endDate |-> Undef]
RenterData(name, phone, startDate, endDate) ==
    [present |-> TRUE, name |-> name, phone |-> phone,
     startDate |-> startDate, endDate |-> endDate]
RenterDataValues ==
    { NoRenterData,
      RenterData(Str(Matti), Str(Phone3), Str(Nov01), Str(Nov10)),
      RenterData(Undef, Undef, Undef, Undef) }

\* pg sends a parameter that is undefined as NULL.
PgValue(v) == IF v.t = "undefined" THEN Null ELSE v

\* Variant: making a car available sets the flag and leaves the renter
\* columns as they are.
UpdatedRowKeepsRenter(row, isAvailable, renterData) ==
    IF ToBoolean(isAvailable)
      THEN [row EXCEPT !.is_available = TRUE]
      ELSE RentalRow(FALSE, PgValue(renterData.name), PgValue(renterData.phone),
                     PgValue(renterData.startDate), PgValue(renterData.endDate))

\* The row the UPDATE of either branch leaves.
UpdatedRow(row, isAvailable, renterData) ==
    IF ToBoolean(isAvailable)
      THEN RentalRow(TRUE, Null, Null, Null, Null)
      ELSE RentalRow(FALSE, PgValue(renterData.name), PgValue(renterData.phone),
                     PgValue(renterData.startDate), PgValue(renterData.endDate))

\* CarInfoQueries.updateRentalAvailability(licensePlate, isAvailable,
\* renterData = null). In the else branch the values array reads
\* renterData.name, which throws a TypeError when renterData is null, before
\* client.query is reached. queryOk: the query resolves; a rejected query
\* changes nothing. A plate without a row matches no row.
updateRentalAvailability(licensePlate, isAvailable, renterData, queryOk) ==
    /\ Len(rentalCalls) < MaxRentalCalls
    /\ LET throwsEarly == ~ToBoolean(isAvailable) /\ ~renterData.present
           updates == /\ ~throwsEarly
                      /\ queryOk
                      /\ licensePlate \in DOMAIN rentalInfo
       IN  /\ rentalInfo' =
                IF updates
                  THEN [rentalInfo EXCEPT ![licensePlate] =
                          UpdatedRow(@, isAvailable, renterData)]
                  ELSE rentalInfo
           /\ rentalCalls' = Append(rentalCalls,
                [licensePlate |-> licensePlate, isAvailable |-> isAvailable,
                 renterData |-> renterData,
                 queried |-> ~throwsEarly,
                 threw |-> throwsEarly \/ ~queryOk,
                 rows |-> IF updates THEN 1 ELSE 0])
    /\ UNCHANGED gatewayVars
    /\ UNCHANGED webVars

InitGateway ==
    /\ \/ startPc = "mongo" /\ mongoClient = TRUE
       \/ startPc = "failed" /\ mongoClient = FALSE
    /\ redisClient = FALSE
    /\ mqttClient = FALSE
    /\ subscribed = FALSE
    /\ mqttConnected = FALSE
    /\ readyState = [c \in Conns |-> "NONE"]
    /\ connectedCars = <<>>
    /\ handlers = {}
    /\ nFrames = 0
    /\ store = <<>>
    /\ busData = <<>>
    /\ errors = {}
    /\ apiPending = {}
    /\ nCmds = 0
    /\ busCmds = <<>>
    /\ published = {}
    /\ responses = {}
    /\ outbox = [c \in Conns |-> <<>>]

\* The gateway specifications start with the web server at its first await
\* and its databases empty; none of them takes a step of the web server.
Init ==
    /\ InitGateway
    /\ webPc = "mongo"
    /\ InitWebServer([p \in WebPlates |-> "none"], {})
    /\ InitRentalInfo

\* --------------------------------------------------------------- validators
\* The validators of the gateway's test suite ("Data Validation").
Upper == {"A", "B", "C", "D", "E", "F", "G", "H", "I", "J", "K", "L", "M",
          "N", "O", "P", "Q", "R", "S", "T", "U", "V", "W", "X", "Y", "Z"}
Digit == {"0", "1", "2", "3", "4", "5", "6", "7", "8", "9"}

\* /^[A-Z]{3}-[0-9]{3}$/.test(plate)
validateLicensePlate(plate) ==
    /\ plate.t = "string"
    /\ Len(plate.s) = 7
    /\ \A i \in 1..3 : plate.s[i] \in Upper
    /\ plate.s[4] = "-"
    /\ \A i \in 5..7 : plate.s[i] \in Digit

\* typeof temp === 'number' && temp >= -50 && temp <= 100
validateTemperature(temp) ==
    /\ temp.t = "number"
    /\ temp.n >= -50
    /\ temp.n <= 100

validateGPS(gps) ==
    /\ gps.present
    /\ gps.lat.t = "number"
    /\ gps.lng.t = "number"
    /\ gps.lat.n >= -90 /\ gps.lat.n <= 90
    /\ gps.lng.n >= -180 /\ gps.lng.n <= 180

\* Variant: each dependency is connected in a try/catch of its own, so a
\* failed MongoDB connect is logged and startup goes on to Redis.
MongoConnectSettlesContinues(ok) ==
    /\ startPc = "mongo"
    /\ startPc' = "redis"
    /\ redisClient' = TRUE
    /\ UNCHANGED <<mongoClient, mqttClient, subscribed, mqttConnected>>
    /\ UNCHANGED <<readyState, connectedCars, outbox>>
    /\ UNCHANGED ingestVars
    /\ UNCHANGED cmdVars
    /\ UNCHANGED webVars
    /\ UNCHANGED rentalVars

\* ------------------------------------------------------- initConnections
\* await mongoClient.connect() settles; on success createClient() runs
\* synchronously and the handler suspends at await redisClient.connect().
MongoConnectSettles(ok) ==
    /\ startPc = "mongo"
    /\ IF ok
         THEN startPc' = "redis" /\ redisClient' = TRUE
         ELSE startPc' = "failed" /\ redisClient' = redisClient
    /\ UNCHANGED <<mongoClient, mqttClient, subscribed, mqttConnected>>
    /\ UNCHANGED <<readyState, connectedCars, outbox>>
    /\ UNCHANGED ingestVars
    /\ UNCHANGED cmdVars
    /\ UNCHANGED webVars
    /\ UNCHANGED rentalVars

\* await redisClient.connect() settles; on success subscribe is issued.
RedisConnectSettles(ok) ==
    /\ startPc = "redis"
    /\ startPc' = IF ok THEN "subscribe" ELSE "failed"
    /\ UNCHANGED <<mongoClient, redisClient, mqttClient, subscribed, mqttConnected>>
    /\ UNCHANGED <<readyState, connectedCars, outbox>>
    /\ UNCHANGED ingestVars
    /\ UNCHANGED cmdVars
    /\ UNCHANGED webVars
    /\ UNCHANGED rentalVars

\* await redisClient.subscribe('car:*:commands', ...) settles; on success
\* mqtt.connect() runs synchronously and its handlers are attached.
SubscribeSettles(ok) ==
    /\ startPc = "subscribe"
    /\ IF ok
         THEN startPc' = "done" /\ subscribed' = TRUE /\ mqttClient' = TRUE
         ELSE startPc' = "failed" /\ UNCHANGED <<subscribed, mqttClient>>
    /\ UNCHANGED <<mongoClient, redisClient, mqttConnected>>
    /\ UNCHANGED <<readyState, connectedCars, outbox>>
    /\ UNCHANGED ingestVars
    /\ UNCHANGED cmdVars
    /\ UNCHANGED webVars
    /\ UNCHANGED rentalVars

\* startServer: initConnections has returned ("done" or "failed") and
\* processFromC2 runs. With a Redis client it awaits the subscription to
\* sensors:*; when that settles, app.listen is called, or startServer
\* rejects and the HTTP server never listens.
SensorsSubscribeSettles(ok) ==
    /\ startPc \in {"done", "failed"}
    /\ redisClient
    /\ startPc' = IF ok THEN "listening" ELSE "stopped"
    /\ UNCHANGED <<mongoClient, redisClient, mqttClient, subscribed, mqttConnected>>
    /\ UNCHANGED <<readyState, connectedCars, outbox>>
    /\ UNCHANGED ingestVars
    /\ UNCHANGED cmdVars
    /\ UNCHANGED webVars
    /\ UNCHANGED rentalVars

\* The HTTP server accepts requests: app.listen has been called. Without a
\* Redis client processFromC2 returns at once, so the server listens as
\* soon as initConnections has failed.
Listening ==
    \/ startPc = "listening"
    \/ startPc = "failed" /\ ~redisClient

\* mqttClient.on('connect'): the broker accepted, car/+/data is subscribed.
MqttConnect ==
    /\ mqttClient
    /\ ~mqttConnected
    /\ mqttConnected' = TRUE
    /\ UNCHANGED <<startPc, mongoClient, redisClient, mqttClient, subscribed>>
    /\ UNCHANGED <<readyState, connectedCars, outbox>>
    /\ UNCHANGED ingestVars
    /\ UNCHANGED cmdVars
    /\ UNCHANGED webVars
    /\ UNCHANGED rentalVars

\* Variant: the registry holds one entry per plate; a socket that registers
\* a plate takes the place of the socket that had it.
MapSetPerPlate(m, ws, plate, at) ==
    Append(SelectSeq(m, LAMBDA e : e.ws # ws /\ e.plate # plate),
           [ws |-> ws, plate |-> plate, at |-> at])

\* Variant: every set adds an entry, so a socket that identifies again
\* keeps its earlier plate beside the new one.
MapSetAppends(m, ws, plate, at) ==
    Append(m, [ws |-> ws, plate |-> plate, at |-> at])

\* ---------------------------------------------------------- connectedCars
\* Map.prototype.set: an existing key keeps its position, a new key is
\* appended to the iteration order.
\* at is the number of the frame that made the latest set for the key.
MapSet(m, ws, plate, at) ==
    IF \E i \in 1..Len(m) : m[i].ws = ws
      THEN [i \in 1..Len(m) |->
              IF m[i].ws = ws THEN [ws |-> ws, plate |-> plate, at |-> at] ELSE m[i]]
      ELSE Append(m, [ws |-> ws, plate |-> plate, at |-> at])

MapDelete(m, ws) == SelectSeq(m, LAMBDA e : e.ws # ws)

MapHas(m, ws) == \E i \in 1..Len(m) : m[i].ws = ws

MapGet(m, ws) == m[CHOOSE i \in 1..Len(m) : m[i].ws = ws].plate

\* Variant: the loop does not compare the plate.
FindOpenAnyPlate(plate) ==
    LET hits == { i \in 1..Len(connectedCars) : readyState[connectedCars[i].ws] = "OPEN" }
    IN  IF hits = {} THEN {}
        ELSE { connectedCars[CHOOSE i \in hits : \A j \in hits : i <= j].ws }

\* Variant: the loop does not test readyState.
FindRegistered(plate) ==
    LET hits == { i \in 1..Len(connectedCars) :
                    /\ plate.t = "string"
                    /\ connectedCars[i].plate = plate.s }
    IN  IF hits = {} THEN {}
        ELSE { connectedCars[CHOOSE i \in hits : \A j \in hits : i <= j].ws }

\* Variant: the loop has no break, every matching OPEN socket is sent to.
FindOpenAll(plate) ==
    { connectedCars[i].ws : i \in { j \in 1..Len(connectedCars) :
                                      /\ plate.t = "string"
                                      /\ connectedCars[j].plate = plate.s
                                      /\ readyState[connectedCars[j].ws] = "OPEN" } }

\* The lookup loop shared by the three routing paths: the first entry, in
\* Map iteration order, whose plate is the wanted one and whose socket is
\* OPEN; the loop breaks there. The result is the set of sockets sent to.
FindOpen(plate) ==
    LET hits == { i \in 1..Len(connectedCars) :
                    /\ plate.t = "string"
                    /\ connectedCars[i].plate = plate.s
                    /\ readyState[connectedCars[i].ws] = "OPEN" }
    IN  IF hits = {} THEN {}
        ELSE { connectedCars[CHOOSE i \in hits : \A j \in hits : i <= j].ws }

\* ws.send(JSON.stringify(msg)) on every socket of targets.
Send(targets, msg) ==
    [c \in Conns |-> IF c \in targets THEN Append(outbox[c], msg) ELSE outbox[c]]

\* Variant: the connection handler attaches the listeners and sends nothing.
ConnectSilent(c) ==
    /\ readyState[c] = "NONE"
    /\ \A d \in Conns : d < c => readyState[d] # "NONE"
    /\ readyState' = [readyState EXCEPT ![c] = "OPEN"]
    /\ UNCHANGED <<connectedCars, outbox>>
    /\ UNCHANGED startVars
    /\ UNCHANGED ingestVars
    /\ UNCHANGED cmdVars
    /\ UNCHANGED webVars
    /\ UNCHANGED rentalVars

\* --------------------------------------------------- wss.on('connection')
\* A socket is accepted: the handlers are attached and connection_confirmed
\* is sent. Sockets are numbered in the order they are accepted.
Connect(c) ==
    /\ readyState[c] = "NONE"
    /\ \A d \in Conns : d < c => readyState[d] # "NONE"
    /\ readyState' = [readyState EXCEPT ![c] = "OPEN"]
    /\ outbox' = Send({c}, [type |-> "connection_confirmed", command |-> Undef,
                            origin |-> "gateway", cmd |-> 0])
    /\ UNCHANGED connectedCars
    /\ UNCHANGED startVars
    /\ UNCHANGED ingestVars
    /\ UNCHANGED cmdVars
    /\ UNCHANGED webVars
    /\ UNCHANGED rentalVars

\* Variant: timestamp is set before the spread, so a timestamp of the
\* sender overwrites it.
DocumentKeepsSenderTime(n, ws, f) ==
    [n |-> n, ws |-> ws, licensePlate |-> f.licensePlate,
     indoorTemp |-> f.indoorTemp, outdoorTemp |-> f.outdoorTemp,
     gps |-> f.gps,
     timestamp |-> IF f.timestamp = Undef THEN Str(ServerTime) ELSE f.timestamp]

\* The record insertOne receives: the frame's fields with timestamp
\* overwritten by new Date(). n and ws identify the frame and its socket.
Document(n, ws, f) ==
    [n |-> n, ws |-> ws, licensePlate |-> f.licensePlate,
     indoorTemp |-> f.indoorTemp, outdoorTemp |-> f.outdoorTemp,
     gps |-> f.gps, timestamp |-> Str(ServerTime)]

\* The publication on car:<licensePlate>:data: JSON.stringify(carData).
Publication(n, ws, f) ==
    [n |-> n, ws |-> ws, topic |-> f.licensePlate.s, licensePlate |-> f.licensePlate,
     indoorTemp |-> f.indoorTemp, outdoorTemp |-> f.outdoorTemp,
     gps |-> f.gps, timestamp |-> f.timestamp]

\* Lines 134-140, run when await storeCarData(carData) resumes: publish if
\* the bus client exists and the frame has a truthy licensePlate. A
\* rejected publish is caught by the handler's catch.
ForwardToRedis(n, ws, f, pubOk) ==
    IF redisClient /\ Truthy(f.licensePlate) /\ pubOk
      THEN Append(busData, Publication(n, ws, f))
      ELSE busData

\* console.error('Error processing car data:', error) of that step.
ForwardErrors(n, ws, f, pubOk) ==
    IF redisClient /\ Truthy(f.licensePlate) /\ ~pubOk
      THEN {[n |-> n, ws |-> ws, at |-> "publish"]}
      ELSE {}

\* Variant: JSON.parse stands outside the try, so a SyntaxError escapes the
\* listener: nothing is logged for the message and nothing else is done.
ReceiveUncaught(c, f, pubOk) ==
    /\ readyState[c] = "OPEN"
    /\ nFrames < MaxFrames
    /\ nFrames' = nFrames + 1
    /\ IF ~f.parses
         THEN UNCHANGED <<errors, connectedCars, handlers, busData>>
         ELSE /\ connectedCars' = IF Truthy(f.licensePlate)
                                    THEN MapSet(connectedCars, c, f.licensePlate.s, nFrames + 1)
                                    ELSE connectedCars
              /\ IF mongoClient
                   THEN /\ handlers' = handlers \cup {[n |-> nFrames + 1, ws |-> c, frame |-> f]}
                        /\ UNCHANGED <<busData, errors>>
                   ELSE /\ busData' = ForwardToRedis(nFrames + 1, c, f, pubOk)
                        /\ errors' = errors \cup ForwardErrors(nFrames + 1, c, f, pubOk)
                        /\ UNCHANGED handlers
    /\ UNCHANGED store
    /\ UNCHANGED <<readyState, outbox>>
    /\ UNCHANGED startVars
    /\ UNCHANGED cmdVars
    /\ UNCHANGED webVars
    /\ UNCHANGED rentalVars

\* Variant: a payload that does not parse makes the handler drop the socket.
ReceiveClosesOnGarbage(c, f, pubOk) ==
    /\ readyState[c] = "OPEN"
    /\ nFrames < MaxFrames
    /\ nFrames' = nFrames + 1
    /\ IF ~f.parses
         THEN /\ errors' = errors \cup {[n |-> nFrames + 1, ws |-> c, at |-> "parse"]}
              /\ readyState' = [readyState EXCEPT ![c] = "CLOSING"]
              /\ UNCHANGED <<connectedCars, handlers, busData>>
         ELSE /\ connectedCars' = IF Truthy(f.licensePlate)
                                    THEN MapSet(connectedCars, c, f.licensePlate.s, nFrames + 1)
                                    ELSE connectedCars
              /\ IF mongoClient
                   THEN /\ handlers' = handlers \cup {[n |-> nFrames + 1, ws |-> c, frame |-> f]}
                        /\ UNCHANGED <<busData, errors>>
                   ELSE /\ busData' = ForwardToRedis(nFrames + 1, c, f, pubOk)
                        /\ errors' = errors \cup ForwardErrors(nFrames + 1, c, f, pubOk)
                        /\ UNCHANGED handlers
              /\ UNCHANGED readyState
    /\ UNCHANGED store
    /\ UNCHANGED outbox
    /\ UNCHANGED startVars
    /\ UNCHANGED cmdVars
    /\ UNCHANGED webVars
    /\ UNCHANGED rentalVars

\* Variant: the socket is registered whether or not the frame has a plate.
ReceiveRegistersAlways(c, f, pubOk) ==
    /\ readyState[c] = "OPEN"
    /\ nFrames < MaxFrames
    /\ nFrames' = nFrames + 1
    /\ IF ~f.parses
         THEN /\ errors' = errors \cup {[n |-> nFrames + 1, ws |-> c, at |-> "parse"]}
              /\ UNCHANGED <<connectedCars, handlers, busData>>
         ELSE /\ connectedCars' = MapSet(connectedCars, c, f.licensePlate.s, nFrames + 1)
              /\ IF mongoClient
                   THEN /\ handlers' = handlers \cup {[n |-> nFrames + 1, ws |-> c, frame |-> f]}
                        /\ UNCHANGED <<busData, errors>>
                   ELSE /\ busData' = ForwardToRedis(nFrames + 1, c, f, pubOk)
                        /\ errors' = errors \cup ForwardErrors(nFrames + 1, c, f, pubOk)
                        /\ UNCHANGED handlers
    /\ UNCHANGED store
    /\ UNCHANGED <<readyState, outbox>>
    /\ UNCHANGED startVars
    /\ UNCHANGED cmdVars
    /\ UNCHANGED webVars
    /\ UNCHANGED rentalVars

\* ws.on('message'), up to its first suspension. JSON.parse throws on
\* garbage and the catch ends the handler. Otherwise the socket is
\* registered when licensePlate is truthy and storeCarData is entered: with
\* no mongoClient it returns at once and the handler runs on to the
\* publish; otherwise insertOne is issued and the handler suspends.
Receive(c, f, pubOk) ==
    /\ readyState[c] = "OPEN"
    /\ nFrames < MaxFrames
    /\ nFrames' = nFrames + 1
    /\ IF ~f.parses
         THEN /\ errors' = errors \cup {[n |-> nFrames + 1, ws |-> c, at |-> "parse"]}
              /\ UNCHANGED <<connectedCars, handlers, busData>>
         ELSE /\ connectedCars' = IF Truthy(f.licensePlate)
                                    THEN MapSet(connectedCars, c, f.licensePlate.s, nFrames + 1)
                                    ELSE connectedCars
              /\ IF mongoClient
                   THEN /\ handlers' = handlers \cup {[n |-> nFrames + 1, ws |-> c, frame |-> f]}
                        /\ UNCHANGED <<busData, errors>>
                   ELSE /\ busData' = ForwardToRedis(nFrames + 1, c, f, pubOk)
                        /\ errors' = errors \cup ForwardErrors(nFrames + 1, c, f, pubOk)
                        /\ UNCHANGED handlers
    /\ UNCHANGED store
    /\ UNCHANGED <<readyState, outbox>>
    /\ UNCHANGED startVars
    /\ UNCHANGED cmdVars
    /\ UNCHANGED webVars
    /\ UNCHANGED rentalVars

\* Variant: storeCarData lets a rejected insertOne escape, so the handler's
\* catch ends the handler before the publish.
InsertSettlesStoreThrows(h, insOk, pubOk) ==
    /\ h \in handlers
    /\ handlers' = handlers \ {h}
    /\ store' = IF insOk THEN Append(store, Document(h.n, h.ws, h.frame)) ELSE store
    /\ busData' = IF insOk THEN ForwardToRedis(h.n, h.ws, h.frame, pubOk) ELSE busData
    /\ errors' = errors \cup (IF insOk THEN ForwardErrors(h.n, h.ws, h.frame, pubOk)
                                       ELSE {[n |-> h.n, ws |-> h.ws, at |-> "store"]})
    /\ UNCHANGED nFrames
    /\ UNCHANGED <<readyState, connectedCars, outbox>>
    /\ UNCHANGED startVars
    /\ UNCHANGED cmdVars
    /\ UNCHANGED webVars
    /\ UNCHANGED rentalVars

\* Variant: a failed insert or publish ends the connection: the socket is
\* terminated and its entry dropped.
InsertSettlesFailureCloses(h, insOk, pubOk) ==
    /\ h \in handlers
    /\ handlers' = handlers \ {h}
    /\ store' = IF insOk THEN Append(store, Document(h.n, h.ws, h.frame)) ELSE store
    /\ busData' = ForwardToRedis(h.n, h.ws, h.frame, pubOk)
    /\ errors' = errors \cup ForwardErrors(h.n, h.ws, h.frame, pubOk)
                         \cup (IF insOk THEN {} ELSE {[n |-> h.n, ws |-> h.ws, at |-> "store"]})
    /\ IF errors' # errors /\ readyState[h.ws] = "OPEN"
         THEN /\ readyState' = [readyState EXCEPT ![h.ws] = "CLOSING"]
              /\ connectedCars' = MapDelete(connectedCars, h.ws)
         ELSE UNCHANGED <<readyState, connectedCars>>
    /\ UNCHANGED nFrames
    /\ UNCHANGED outbox
    /\ UNCHANGED startVars
    /\ UNCHANGED cmdVars
    /\ UNCHANGED webVars
    /\ UNCHANGED rentalVars

\* Variant: the socket is registered after the await, when the handler
\* resumes, whatever has happened to the socket meanwhile.
InsertSettlesRegisters(h, insOk, pubOk) ==
    /\ h \in handlers
    /\ handlers' = handlers \ {h}
    /\ store' = IF insOk THEN Append(store, Document(h.n, h.ws, h.frame)) ELSE store
    /\ busData' = ForwardToRedis(h.n, h.ws, h.frame, pubOk)
    /\ errors' = errors \cup ForwardErrors(h.n, h.ws, h.frame, pubOk)
                         \cup (IF insOk THEN {} ELSE {[n |-> h.n, ws |-> h.ws, at |-> "store"]})
    /\ connectedCars' = IF Truthy(h.frame.licensePlate)
                          THEN MapSet(connectedCars, h.ws, h.frame.licensePlate.s, h.n)
                          ELSE connectedCars
    /\ UNCHANGED nFrames
    /\ UNCHANGED <<readyState, outbox>>
    /\ UNCHANGED startVars
    /\ UNCHANGED cmdVars
    /\ UNCHANGED webVars
    /\ UNCHANGED rentalVars

\* insertOne of a suspended handler settles (lines 176-180: a rejection is
\* caught inside storeCarData), the handler resumes and forwards to Redis.
InsertSettles(h, insOk, pubOk) ==
    /\ h \in handlers
    /\ handlers' = handlers \ {h}
    /\ store' = IF insOk THEN Append(store, Document(h.n, h.ws, h.frame)) ELSE store
    /\ busData' = ForwardToRedis(h.n, h.ws, h.frame, pubOk)
    /\ errors' = errors \cup ForwardErrors(h.n, h.ws, h.frame, pubOk)
                         \cup (IF insOk THEN {} ELSE {[n |-> h.n, ws |-> h.ws, at |-> "store"]})
    /\ UNCHANGED nFrames
    /\ UNCHANGED <<readyState, connectedCars, outbox>>
    /\ UNCHANGED startVars
    /\ UNCHANGED cmdVars
    /\ UNCHANGED webVars
    /\ UNCHANGED rentalVars

\* The transport starts closing (close frame received, socket error): the
\* socket leaves OPEN before its 'close' event is emitted.
TransportClosing(c) ==
    /\ readyState[c] = "OPEN"
    /\ readyState' = [readyState EXCEPT ![c] = "CLOSING"]
    /\ UNCHANGED <<connectedCars, outbox>>
    /\ UNCHANGED startVars
    /\ UNCHANGED ingestVars
    /\ UNCHANGED cmdVars
    /\ UNCHANGED webVars
    /\ UNCHANGED rentalVars

\* Variant: the close handler empties the Map (connectedCars.clear()).
CloseEventClears(c) ==
    /\ readyState[c] = "CLOSING"
    /\ readyState' = [readyState EXCEPT ![c] = "CLOSED"]
    /\ connectedCars' = IF MapHas(connectedCars, c) /\ MapGet(connectedCars, c) # <<>>
                          THEN <<>>
                          ELSE connectedCars
    /\ UNCHANGED outbox
    /\ UNCHANGED startVars
    /\ UNCHANGED ingestVars
    /\ UNCHANGED cmdVars
    /\ UNCHANGED webVars
    /\ UNCHANGED rentalVars

\* Variant: the close handler evicts by licensePlate instead of by socket.
CloseEventByPlate(c) ==
    /\ readyState[c] = "CLOSING"
    /\ readyState' = [readyState EXCEPT ![c] = "CLOSED"]
    /\ connectedCars' = IF MapHas(connectedCars, c)
                          THEN SelectSeq(connectedCars,
                                 LAMBDA e : e.plate # MapGet(connectedCars, c))
                          ELSE connectedCars
    /\ UNCHANGED outbox
    /\ UNCHANGED startVars
    /\ UNCHANGED ingestVars
    /\ UNCHANGED cmdVars
    /\ UNCHANGED webVars
    /\ UNCHANGED rentalVars

\* ws.on('close'): the entry of this socket, if any, is deleted.
CloseEvent(c) ==
    /\ readyState[c] = "CLOSING"
    /\ readyState' = [readyState EXCEPT ![c] = "CLOSED"]
    /\ connectedCars' = IF MapHas(connectedCars, c) /\ MapGet(connectedCars, c) # <<>>
                          THEN MapDelete(connectedCars, c)
                          ELSE connectedCars
    /\ UNCHANGED outbox
    /\ UNCHANGED startVars
    /\ UNCHANGED ingestVars
    /\ UNCHANGED cmdVars
    /\ UNCHANGED webVars
    /\ UNCHANGED rentalVars

\* Variant: a repeated close event sweeps every entry whose socket is not
\* OPEN out of the Map.
CloseEventAgainSweeps(c) ==
    /\ readyState[c] = "CLOSED"
    /\ connectedCars' = SelectSeq(connectedCars, LAMBDA e : readyState[e.ws] = "OPEN")
    /\ UNCHANGED <<readyState, outbox>>
    /\ UNCHANGED startVars
    /\ UNCHANGED ingestVars
    /\ UNCHANGED cmdVars
    /\ UNCHANGED webVars
    /\ UNCHANGED rentalVars

\* The 'close' listener runs once more for a socket that is CLOSED already:
\* the same body, connectedCars.get(ws) and a delete if it found a plate.
CloseEventAgain(c) ==
    /\ readyState[c] = "CLOSED"
    /\ connectedCars' = IF MapHas(connectedCars, c) /\ MapGet(connectedCars, c) # <<>>
                          THEN MapDelete(connectedCars, c)
                          ELSE connectedCars
    /\ UNCHANGED <<readyState, outbox>>
    /\ UNCHANGED startVars
    /\ UNCHANGED ingestVars
    /\ UNCHANGED cmdVars
    /\ UNCHANGED webVars
    /\ UNCHANGED rentalVars

\* GET /health: connectedCars: connectedCars.size.
HealthConnectedCars == Len(connectedCars)

\* GET /health: mongodb: mongoClient ? 'connected' : 'disconnected', the same
\* for redis, and mqtt: mqttClient?.connected ? 'connected' : 'disconnected'.
HealthMongodb == IF mongoClient THEN "connected" ELSE "disconnected"
HealthRedis   == IF redisClient THEN "connected" ELSE "disconnected"
HealthMqtt    == IF mqttClient /\ mqttConnected THEN "connected" ELSE "disconnected"

\* GET /api/connected-cars: Array.from(connectedCars.values()) and its length.
ConnectedCarsList == [i \in 1..Len(connectedCars) |-> connectedCars[i].plate]
ConnectedCarsCount == Len(ConnectedCarsList)

\* ------------------------------------------------------- command routing
\* Commands are addressed to one plate; sockets identify as that plate or
\* as another one.
Plates == {Str(ABC123)}

\* req.body.command: a command name, or undefined when the body has none.
Commands == {Str(StartHeating), Undef}

\* A message on car:<plate>:commands: text JSON.parse rejects, or the object
\* {licensePlate, command, timestamp} that B1 and the gateway publish.
CommandData(plate, command, ts) ==
    [parses |-> TRUE, licensePlate |-> plate, command |-> command, timestamp |-> ts]
BadCommandData ==
    [parses |-> FALSE, licensePlate |-> Undef, command |-> Undef, timestamp |-> Undef]

BusMessages ==
    {CommandData(p, c, Str(ClientTime)) : p \in Plates, c \in Commands} \cup {BadCommandData}

\* A message on car/<plate>/data: garbage, or an object with or without a
\* command field.
CloudMessages ==
    {CommandData(Undef, c, Undef) : c \in Commands} \cup {BadCommandData}

\* handleCarCommand(channel, message): the sockets written to and the
\* message written. JSON.parse throwing is caught and nothing is sent.
CarCommandTargets(data) ==
    IF data.parses THEN FindOpen(data.licensePlate) ELSE {}

CarCommandMessage(id, data) ==
    [type |-> "command", command |-> data.command, origin |-> "bus", cmd |-> id]

\* Variant: the payload is forwarded whether or not it has a command.
MqttTargetsAnyPayload(plate, data) ==
    IF data.parses THEN FindOpen(plate) ELSE {}

\* handleMqttMessage(topic, message): the plate is the second segment of
\* the topic; only a payload with a truthy command is forwarded.
MqttTargets(plate, data) ==
    IF data.parses /\ Truthy(data.command) THEN FindOpen(plate) ELSE {}

MqttMessage(id, data) ==
    [type |-> "cloud_command", command |-> data.command, origin |-> "cloud", cmd |-> id]

\* Variant: only the names of an allow-list are sent on; any other name is
\* answered 400.
DirectSendIfListed(id, plate, command) ==
    IF command = Str(StartHeating)
      THEN /\ outbox' = Send(FindOpen(plate),
                             [type |-> "command", command |-> command, origin |-> "api", cmd |-> id])
           /\ responses' = responses \cup
                 {[cmd |-> id, plate |-> plate, status |-> 200, success |-> TRUE,
                   directSent |-> FindOpen(plate) # {}]}
      ELSE /\ outbox' = outbox
           /\ responses' = responses \cup
                 {[cmd |-> id, plate |-> plate, status |-> 400, success |-> FALSE,
                   directSent |-> FALSE]}

\* Variant: a request whose plate has no OPEN socket is answered 404.
DirectSendOrNotFound(id, plate, command) ==
    /\ outbox' = Send(FindOpen(plate),
                      [type |-> "command", command |-> command, origin |-> "api", cmd |-> id])
    /\ responses' = responses \cup
          {[cmd |-> id, plate |-> plate,
            status |-> IF FindOpen(plate) # {} THEN 200 ELSE 404,
            success |-> FindOpen(plate) # {},
            directSent |-> FindOpen(plate) # {}]}

\* Variant: the socket is looked up when the request arrives and used when
\* the handler resumes: the request is sent to the socket the plate's first
\* entry names, whether or not that socket is still OPEN.
DirectSendToEarlierFind(id, plate, command) ==
    /\ outbox' = Send(FindRegistered(plate),
                      [type |-> "command", command |-> command, origin |-> "api", cmd |-> id])
    /\ responses' = responses \cup
          {[cmd |-> id, plate |-> plate, status |-> 200, success |-> TRUE,
            directSent |-> FindRegistered(plate) # {}]}

\* POST /api/car/:licensePlate/command, lines 405-423: the direct send and
\* the response, run without suspension.
DirectSendAndRespond(id, plate, command) ==
    /\ outbox' = Send(FindOpen(plate),
                      [type |-> "command", command |-> command, origin |-> "api", cmd |-> id])
    /\ responses' = responses \cup
          {[cmd |-> id, plate |-> plate, status |-> 200, success |-> TRUE,
            directSent |-> FindOpen(plate) # {}]}

\* The request arrives. With a bus client the publish is issued and the
\* handler suspends at the await; without one it runs on to the direct send.
ApiRequest(plate, command) ==
    /\ Listening
    /\ nCmds < MaxCmds
    /\ Cardinality(apiPending) + Cardinality(responses) < MaxApi
    /\ nCmds' = nCmds + 1
    /\ IF redisClient
         THEN /\ apiPending' = apiPending \cup
                    {[cmd |-> nCmds + 1, plate |-> plate, command |-> command, onBus |-> FALSE]}
              /\ UNCHANGED <<responses, outbox>>
         ELSE /\ DirectSendAndRespond(nCmds + 1, plate, command)
              /\ UNCHANGED apiPending
    /\ UNCHANGED <<busCmds, published>>
    /\ UNCHANGED <<readyState, connectedCars>>
    /\ UNCHANGED startVars
    /\ UNCHANGED ingestVars
    /\ UNCHANGED webVars
    /\ UNCHANGED rentalVars

\* The PUBLISH of a suspended request reaches the bus: it is on
\* car:<plate>:commands, and queued for the gateway's own subscription if
\* that exists.
ApiPublishReachesBus(r) ==
    /\ r \in apiPending
    /\ ~r.onBus
    /\ apiPending' = (apiPending \ {r}) \cup {[r EXCEPT !.onBus = TRUE]}
    /\ published' = published \cup {[cmd |-> r.cmd, topic |-> r.plate.s]}
    /\ busCmds' = IF subscribed
                    THEN Append(busCmds, [cmd |-> r.cmd,
                            data |-> CommandData(r.plate, r.command, Str(ServerTime))])
                    ELSE busCmds
    /\ UNCHANGED <<nCmds, responses>>
    /\ UNCHANGED <<readyState, connectedCars, outbox>>
    /\ UNCHANGED startVars
    /\ UNCHANGED ingestVars
    /\ UNCHANGED webVars
    /\ UNCHANGED rentalVars

\* Variant: the publish is not awaited before the direct send.
ApiPublishNotAwaited(r) ==
    /\ r \in apiPending
    /\ apiPending' = apiPending \ {r}
    /\ DirectSendAndRespond(r.cmd, r.plate, r.command)
    /\ UNCHANGED <<nCmds, busCmds, published>>
    /\ UNCHANGED <<readyState, connectedCars>>
    /\ UNCHANGED startVars
    /\ UNCHANGED ingestVars
    /\ UNCHANGED webVars
    /\ UNCHANGED rentalVars

\* await redisClient.publish(...) resolves: the handler resumes with the
\* direct send and the response.
ApiPublishResolves(r) ==
    /\ r \in apiPending
    /\ r.onBus
    /\ apiPending' = apiPending \ {r}
    /\ DirectSendAndRespond(r.cmd, r.plate, r.command)
    /\ UNCHANGED <<nCmds, busCmds, published>>
    /\ UNCHANGED <<readyState, connectedCars>>
    /\ UNCHANGED startVars
    /\ UNCHANGED ingestVars
    /\ UNCHANGED webVars
    /\ UNCHANGED rentalVars

\* Variant: the publish has its own try/catch, so after a rejected publish
\* the handler goes on to the direct send and the result.
ApiPublishRejectsSendsAnyway(r) ==
    /\ r \in apiPending
    /\ ~r.onBus
    /\ apiPending' = apiPending \ {r}
    /\ DirectSendAndRespond(r.cmd, r.plate, r.command)
    /\ UNCHANGED <<nCmds, busCmds, published>>
    /\ UNCHANGED <<readyState, connectedCars>>
    /\ UNCHANGED startVars
    /\ UNCHANGED ingestVars
    /\ UNCHANGED webVars
    /\ UNCHANGED rentalVars

\* await redisClient.publish(...) rejects: the catch answers 500.
ApiPublishRejects(r) ==
    /\ r \in apiPending
    /\ ~r.onBus
    /\ apiPending' = apiPending \ {r}
    /\ responses' = responses \cup
          {[cmd |-> r.cmd, plate |-> r.plate, status |-> 500, success |-> FALSE,
            directSent |-> FALSE]}
    /\ UNCHANGED <<nCmds, busCmds, published>>
    /\ UNCHANGED <<readyState, connectedCars, outbox>>
    /\ UNCHANGED startVars
    /\ UNCHANGED ingestVars
    /\ UNCHANGED webVars
    /\ UNCHANGED rentalVars

\* Variant: handleCarCommand publishes the command it has handled on
\* car:<plate>:commands again.
OwnCommandArrivesRepublishes ==
    /\ busCmds # <<>>
    /\ busCmds' = Append(Tail(busCmds), Head(busCmds))
    /\ outbox' = Send(CarCommandTargets(Head(busCmds).data),
                      CarCommandMessage(Head(busCmds).cmd, Head(busCmds).data))
    /\ UNCHANGED <<apiPending, nCmds, published, responses>>
    /\ UNCHANGED <<readyState, connectedCars>>
    /\ UNCHANGED startVars
    /\ UNCHANGED ingestVars
    /\ UNCHANGED webVars
    /\ UNCHANGED rentalVars

\* The subscription listener runs for a message the gateway itself
\* published.
OwnCommandArrives ==
    /\ busCmds # <<>>
    /\ busCmds' = Tail(busCmds)
    /\ outbox' = Send(CarCommandTargets(Head(busCmds).data),
                      CarCommandMessage(Head(busCmds).cmd, Head(busCmds).data))
    /\ UNCHANGED <<apiPending, nCmds, published, responses>>
    /\ UNCHANGED <<readyState, connectedCars>>
    /\ UNCHANGED startVars
    /\ UNCHANGED ingestVars
    /\ UNCHANGED webVars
    /\ UNCHANGED rentalVars

\* Variant: a message JSON.parse rejects ends the subscription.
BusCommandArrivesStopsOnGarbage(data) ==
    /\ subscribed
    /\ nCmds < MaxCmds
    /\ nCmds' = nCmds + 1
    /\ outbox' = Send(CarCommandTargets(data), CarCommandMessage(nCmds + 1, data))
    /\ subscribed' = data.parses
    /\ UNCHANGED <<startPc, mongoClient, redisClient, mqttClient, mqttConnected>>
    /\ UNCHANGED <<apiPending, busCmds, published, responses>>
    /\ UNCHANGED <<readyState, connectedCars>>
    /\ UNCHANGED ingestVars
    /\ UNCHANGED webVars
    /\ UNCHANGED rentalVars

\* The subscription listener runs for a message another component (B1)
\* published on car:<plate>:commands.
BusCommandArrives(data) ==
    /\ subscribed
    /\ nCmds < MaxCmds
    /\ nCmds' = nCmds + 1
    /\ outbox' = Send(CarCommandTargets(data), CarCommandMessage(nCmds + 1, data))
    /\ UNCHANGED <<apiPending, busCmds, published, responses>>
    /\ UNCHANGED <<readyState, connectedCars>>
    /\ UNCHANGED startVars
    /\ UNCHANGED ingestVars
    /\ UNCHANGED webVars
    /\ UNCHANGED rentalVars

\* mqttClient.on('message') for a message on car/<plate>/data.
CloudMessageArrives(plate, data) ==
    /\ mqttConnected
    /\ nCmds < MaxCmds
    /\ nCmds' = nCmds + 1
    /\ outbox' = Send(MqttTargets(plate, data), MqttMessage(nCmds + 1, data))
    /\ UNCHANGED <<apiPending, busCmds, published, responses>>
    /\ UNCHANGED <<readyState, connectedCars>>
    /\ UNCHANGED startVars
    /\ UNCHANGED ingestVars
    /\ UNCHANGED webVars
    /\ UNCHANGED rentalVars

\* ------------------------------------------------------------ web server

\* initDatabases: await mongoClient.connect() settles; on success the pg
\* Client is constructed and its connect awaited.
WebMongoConnectSettles(ok) ==
    /\ webPc = "mongo"
    /\ IF ok
         THEN webPc' = "pg" /\ webPgClient' = TRUE
         ELSE webPc' = "failed" /\ webPgClient' = webPgClient
    /\ UNCHANGED <<webMongoClient, webRedisClient, webRealtime, webStatic,
                   nWebReqs, webResponses, webBus>>
    /\ UNCHANGED gatewayVars
    /\ UNCHANGED rentalVars

\* await pgClient.connect() settles; on success the Redis client is created.
WebPgConnectSettles(ok) ==
    /\ webPc = "pg"
    /\ IF ok
         THEN webPc' = "redis" /\ webRedisClient' = TRUE
         ELSE webPc' = "failed" /\ webRedisClient' = webRedisClient
    /\ UNCHANGED <<webMongoClient, webPgClient, webRealtime, webStatic,
                   nWebReqs, webResponses, webBus>>
    /\ UNCHANGED gatewayVars
    /\ UNCHANGED rentalVars

\* await redisClient.connect() settles.
WebRedisConnectSettles(ok) ==
    /\ webPc = "redis"
    /\ webPc' = IF ok THEN "done" ELSE "failed"
    /\ UNCHANGED <<webMongoClient, webPgClient, webRedisClient, webRealtime,
                   webStatic, nWebReqs, webResponses, webBus>>
    /\ UNCHANGED gatewayVars
    /\ UNCHANGED rentalVars

\* startServer calls app.listen after initDatabases has returned.
WebListening == webPc \in {"done", "failed"}

\* GET /api/car/:licensePlate. With both clients the two queries run: findOne
\* rejects when MongoDB is not reachable, pgClient.query when PostgreSQL is
\* not or when pgClient never connected (the Redis client is created only
\* after it did); with a document and a row, toFixed is called on both
\* temperatures and throws on one that is missing. Anything thrown is
\* answered 500. Otherwise the data is the databases', else the mock
\* record of the upper-cased plate, else 404.
GetCarResponse(plate, mongoOk, pgOk) ==
    LET useDb == webMongoClient /\ webPgClient
        both  == webRealtime[plate] # "none" /\ plate \in webStatic
        threw == useDb /\ \/ ~mongoOk
                          \/ ~(pgOk /\ webRedisClient)
                          \/ both /\ webRealtime[plate] = "partial"
        found == useDb /\ ~threw /\ both
    IN  IF threw THEN [status |-> 500, source |-> "none", bodyPlate |-> <<>>]
        ELSE IF found THEN [status |-> 200, source |-> "db", bodyPlate |-> plate]
        ELSE IF toUpperCase(plate) \in MockPlates
               THEN [status |-> 200, source |-> "mock", bodyPlate |-> toUpperCase(plate)]
               ELSE [status |-> 404, source |-> "none", bodyPlate |-> <<>>]

GetCar(plate, mongoOk, pgOk) ==
    /\ WebListening
    /\ nWebReqs < MaxWebReqs
    /\ nWebReqs' = nWebReqs + 1
    /\ webResponses' = webResponses \cup
          {[req |-> nWebReqs + 1, kind |-> "car", plate |-> plate, command |-> Undef,
            mongoOk |-> mongoOk, pgOk |-> pgOk,
            status |-> GetCarResponse(plate, mongoOk, pgOk).status,
            source |-> GetCarResponse(plate, mongoOk, pgOk).source,
            bodyPlate |-> GetCarResponse(plate, mongoOk, pgOk).bodyPlate]}
    /\ UNCHANGED <<webPc, webMongoClient, webPgClient, webRedisClient, webRealtime,
                   webStatic, webBus>>
    /\ UNCHANGED gatewayVars
    /\ UNCHANGED rentalVars

\* POST /api/car/:licensePlate/command of the web server: with a Redis
\* client the command is published on car:<plate>:commands and a rejected
\* publish is answered 500; in every other case the answer is success.
PostCommand(plate, command, pubOk) ==
    /\ WebListening
    /\ nWebReqs < MaxWebReqs
    /\ nWebReqs' = nWebReqs + 1
    /\ webBus' = IF webRedisClient /\ pubOk
                   THEN Append(webBus, [req |-> nWebReqs + 1, topic |-> plate,
                                        data |-> CommandData(Str(plate), command, Str(ServerTime))])
                   ELSE webBus
    /\ webResponses' = webResponses \cup
          {[req |-> nWebReqs + 1, kind |-> "command", plate |-> plate, command |-> command,
            mongoOk |-> TRUE, pgOk |-> TRUE,
            status |-> IF webRedisClient /\ ~pubOk THEN 500 ELSE 200,
            source |-> "none", bodyPlate |-> <<>>]}
    /\ UNCHANGED <<webPc, webMongoClient, webPgClient, webRedisClient, webRealtime, webStatic>>
    /\ UNCHANGED gatewayVars
    /\ UNCHANGED rentalVars

\* ----------------------------------------------------------- specification
\* The frames that only identify a socket: one per plate.
IdFrames ==
    { Frame(Str(ABC123), Num(22), Num(15), Gps(Num(60), Num(24)), Str(ClientTime)),
      Frame(Str(XYZ789), Num(22), Undef, NoGps, Undef) }

Startup ==
    \/ \E ok \in BOOLEAN : MongoConnectSettles(ok)
    \/ \E ok \in BOOLEAN : RedisConnectSettles(ok)
    \/ \E ok \in BOOLEAN : SubscribeSettles(ok)
    \/ \E ok \in BOOLEAN : SensorsSubscribeSettles(ok)
    \/ MqttConnect

Sessions ==
    \/ \E c \in Conns : Connect(c)
    \/ \E c \in Conns : TransportClosing(c)
    \/ \E c \in Conns : CloseEvent(c)
    \/ \E c \in Conns : CloseEventAgain(c)

\* Telemetry ingest: every kind of frame, store and bus failures included.
\* Command routing reads none of handlers, store and busData and writes none
\* of them, so it is left to SpecRoute.
NextIngest ==
    \/ Startup
    \/ Sessions
    \/ \E c \in Conns, f \in Frames, pubOk \in BOOLEAN : Receive(c, f, pubOk)
    \/ \E h \in handlers, insOk \in BOOLEAN, pubOk \in BOOLEAN : InsertSettles(h, insOk, pubOk)

SpecIngest == Init /\ [][NextIngest]_vars

\* Command routing: the three origins against sockets that connect,
\* identify, re-identify and close. Routing reads of a frame only its
\* licensePlate, so the frames are the identifying ones and their store
\* write and publish succeed.
NextRoute ==
    \/ Startup
    \/ Sessions
    \/ \E c \in Conns, f \in IdFrames : Receive(c, f, TRUE)
    \/ \E h \in handlers : InsertSettles(h, TRUE, TRUE)
    \/ \E p \in Plates, c \in Commands : ApiRequest(p, c)
    \/ \E r \in apiPending : ApiPublishReachesBus(r)
    \/ \E r \in apiPending : ApiPublishResolves(r)
    \/ \E r \in apiPending : ApiPublishRejects(r)
    \/ OwnCommandArrives
    \/ \E d \in BusMessages : BusCommandArrives(d)
    \/ \E p \in Plates, d \in CloudMessages : CloudMessageArrives(p, d)

SpecRoute == Init /\ [][NextRoute]_vars

\* Command routing against sockets that identify and sockets that send
\* frames without a licensePlate: the frames are one identifying frame and
\* one without a plate, and their store write and publish succeed.
AnonFrames ==
    { Frame(Str(ABC123), Num(22), Num(15), Gps(Num(60), Num(24)), Str(ClientTime)),
      Frame(Undef, Num(22), Undef, NoGps, Undef) }

NextAnon ==
    \/ Startup
    \/ Sessions
    \/ \E c \in Conns, f \in AnonFrames : Receive(c, f, TRUE)
    \/ \E h \in handlers : InsertSettles(h, TRUE, TRUE)
    \/ \E p \in Plates, c \in Commands : ApiRequest(p, c)
    \/ \E r \in apiPending : ApiPublishReachesBus(r)
    \/ \E r \in apiPending : ApiPublishResolves(r)
    \/ \E r \in apiPending : ApiPublishRejects(r)
    \/ OwnCommandArrives
    \/ \E d \in BusMessages : BusCommandArrives(d)
    \/ \E p \in Plates, d \in CloudMessages : CloudMessageArrives(p, d)

SpecAnon == Init /\ [][NextAnon]_vars

\* The command API against arbitrary command names: req.body.command is
\* any non-empty string, here the name the other specifications use, the
\* example of the endpoint's documentation and a name that is no identifier.
Unlock == <<"u", "n", "l", "o", "c", "k">>
Odd    == <<"?", "!">>
CommandNames == {Str(StartHeating), Str(Unlock), Str(Odd)}

NextNames ==
    \/ Startup
    \/ Sessions
    \/ \E c \in Conns, f \in IdFrames : Receive(c, f, TRUE)
    \/ \E h \in handlers : InsertSettles(h, TRUE, TRUE)
    \/ \E p \in Plates, c \in CommandNames : ApiRequest(p, c)
    \/ \E r \in apiPending : ApiPublishReachesBus(r)
    \/ \E r \in apiPending : ApiPublishResolves(r)
    \/ \E r \in apiPending : ApiPublishRejects(r)
    \/ OwnCommandArrives

SpecNames == Init /\ [][NextNames]_vars

\* The web server on its own: the gateway stays as started, the databases
\* hold any combination of documents and rows for the plates asked.
InitWeb ==
    /\ InitGateway
    /\ startPc = "mongo"
    /\ \E realtime \in [WebPlates -> RealtimeKinds], static \in SUBSET WebPlates :
          InitWebServer(realtime, static)
    /\ InitRentalInfo

NextWeb ==
    \/ \E ok \in BOOLEAN : WebMongoConnectSettles(ok)
    \/ \E ok \in BOOLEAN : WebPgConnectSettles(ok)
    \/ \E ok \in BOOLEAN : WebRedisConnectSettles(ok)
    \/ \E p \in WebPlates, mongoOk \in BOOLEAN, pgOk \in BOOLEAN : GetCar(p, mongoOk, pgOk)
    \/ \E c \in WebCommands, pubOk \in BOOLEAN : PostCommand(ABC123, c, pubOk)

SpecWeb == InitWeb /\ [][NextWeb]_vars

\* ================================================================= claims
\* Helpers of the statements below.
\* The static database alone: calls of updateRentalAvailability on the
\* seeded table.
NextRental ==
    \E p \in RentalPlates, a \in IsAvailableValues, d \in RenterDataValues, ok \in BOOLEAN :
       updateRentalAvailability(p, a, d, ok)

SpecRental == Init /\ [][NextRental]_vars

AllPlates == {ABC123, XYZ789, NoDash}

\* The sockets registered for a plate, and those of them that are OPEN.
RegisteredFor(plate) ==
    { connectedCars[i].ws : i \in { j \in 1..Len(connectedCars) : connectedCars[j].plate = plate } }
OpenFor(plate) == { c \in RegisteredFor(plate) : readyState[c] = "OPEN" }
EntryOf(c) == connectedCars[CHOOSE i \in 1..Len(connectedCars) : connectedCars[i].ws = c]

\* The positions of the command messages sent so far, and those of one command.
Sent == UNION { { <<c, i>> : i \in 1..Len(outbox[c]) } : c \in Conns }
CommandsSent == { p \in Sent : outbox[p[1]][p[2]].type # "connection_confirmed" }
SentFor(id) == { p \in CommandsSent : outbox[p[1]][p[2]].cmd = id }
PublishedIds == { p.cmd : p \in published }

\* ---------------------------------------------------------------------
\* C1. No stale eviction: when the close event of socket a fires, the entry
\* of every other socket is kept as it is, and if b is the only other OPEN
\* socket registered for a's plate, the lookup for that plate selects b
\* afterwards, so a command routed to the plate goes to b.
C1_NoStaleEviction ==
    [][\A a \in Conns, plate \in AllPlates :
         (/\ readyState[a] = "CLOSING" /\ readyState'[a] = "CLOSED"
          /\ a \in RegisteredFor(plate)) =>
            \A b \in Conns \ {a} :
               MapHas(connectedCars, b) =>
                  /\ MapHas(connectedCars', b)
                  /\ MapGet(connectedCars', b) = MapGet(connectedCars, b)
                  /\ (OpenFor(plate) \ {a} = {b} => FindOpen(Str(plate))' = {b})]_vars

\* Socket 1 and then socket 2 identified as ABC-123, socket 1 is closed and
\* a command for ABC-123 was delivered to socket 2.
C1_Witness ==
    /\ readyState[1] = "CLOSED"
    /\ ~MapHas(connectedCars, 1)
    /\ \E i, j \in 1..Len(store) :
          /\ store[i].ws = 1 /\ store[j].ws = 2 /\ store[i].n < store[j].n
          /\ store[i].licensePlate = Str(ABC123) /\ store[j].licensePlate = Str(ABC123)
    /\ FindOpen(Str(ABC123)) = {2}
    /\ \E i \in 1..Len(outbox[2]) : outbox[2][i].type = "command"

\* ---------------------------------------------------------------------
\* C2. Newest wins: whenever two or more OPEN sockets are registered for
\* the same plate, the lookup selects the one that registered most
\* recently.
C2_NewestWins ==
    \A plate \in AllPlates :
       Cardinality(OpenFor(plate)) >= 2 =>
          \E c \in OpenFor(plate) :
             /\ FindOpen(Str(plate)) = {c}
             /\ \A d \in OpenFor(plate) : EntryOf(d).at <= EntryOf(c).at

\* ---------------------------------------------------------------------
\* C3. A request answered with directSent = true has put exactly one
\* command message of that request on a socket, counting the direct send
\* and the gateway's own subscription.
C3_ExactlyOneDelivery ==
    \A r \in responses : r.directSent => Cardinality(SentFor(r.cmd)) = 1

\* ---------------------------------------------------------------------
\* C4 as claimed. An API request for a plate with no registered socket is
\* answered with a non-error result, directSent = false, the command having
\* been published on the plate's command topic, and sends nothing.
C4_NotConnectedIsRepublished ==
    [][\A r \in responses' \ responses :
         RegisteredFor(r.plate.s) = {} =>
            /\ r.status = 200
            /\ ~r.directSent
            /\ [cmd |-> r.cmd, topic |-> r.plate.s] \in published'
            /\ outbox' = outbox]_vars

\* C4 as amended. An API request for a plate with no registered socket
\* sends nothing and is answered either 200 with directSent = false, the
\* command then being on the plate's command topic exactly when a bus
\* client exists, or, with a bus client whose publish was rejected, 500.
C4_NotConnectedResult ==
    [][\A r \in responses' \ responses :
         RegisteredFor(r.plate.s) = {} =>
            /\ outbox' = outbox
            /\ ~r.directSent
            /\ r.status \in {200, 500}
            /\ r.status = 200 =>
                  (redisClient <=> [cmd |-> r.cmd, topic |-> r.plate.s] \in published)
            /\ r.status = 500 => redisClient]_vars

\* No socket was ever accepted, and an API request was answered 200 with
\* directSent = false after its command was published.
C4_Witness ==
    /\ \A c \in Conns : readyState[c] = "NONE"
    /\ \E r \in responses : r.status = 200 /\ ~r.directSent /\ r.cmd \in PublishedIds

\* ---------------------------------------------------------------------
\* C5 as claimed. Every command that was routed, whatever its origin, is
\* on the bus under the plate's command topic: a command that arrived from
\* the bus is there already, one from the API or the cloud bridge has been
\* published by the gateway.
C5_AlwaysPublished ==
    /\ \A r \in responses : r.status = 200 => r.cmd \in PublishedIds
    /\ \A p \in CommandsSent :
          outbox[p[1]][p[2]].origin # "bus" => outbox[p[1]][p[2]].cmd \in PublishedIds

\* C5 as amended. A command from the API is published on
\* car:<plate>:commands before its direct send whenever the bus client
\* exists; nothing but a suspended API request ever publishes a command, so
\* commands from the bus and the cloud bridge, and API commands taken while
\* no bus client exists, are not published by the gateway.
C5_ApiPublishesBeforeSend ==
    [][/\ \A r \in responses' \ responses :
             (r.status = 200 /\ redisClient) =>
                [cmd |-> r.cmd, topic |-> r.plate.s] \in published
       /\ published' # published =>
             /\ nCmds' = nCmds
             /\ \E r \in apiPending :
                   published' = published \cup {[cmd |-> r.cmd, topic |-> r.plate.s]}]_vars

\* An API command was published and answered, and a cloud command was
\* delivered without any publication.
C5_Witness ==
    /\ \E r \in responses : r.status = 200 /\ r.cmd \in PublishedIds
    /\ \E p \in CommandsSent :
          outbox[p[1]][p[2]].origin = "cloud" /\ outbox[p[1]][p[2]].cmd \notin PublishedIds

\* ---------------------------------------------------------------------
\* Helpers of the ingest statements: the records and publications that
\* arrived over device sockets.
Stored == { store[i] : i \in 1..Len(store) }
Forwarded == { busData[i] : i \in 1..Len(busData) }
InOrder(seq) ==
    \A i, j \in 1..Len(seq) : (i < j /\ seq[i].ws = seq[j].ws) => seq[i].n < seq[j].n

\* C6. The store holds no record with a temperature that is present and is
\* non-numeric or outside [-50, 100].
C6_NoBadTemperatureStored ==
    \A d \in Stored :
       /\ d.indoorTemp = Undef \/ validateTemperature(d.indoorTemp)
       /\ d.outdoorTemp = Undef \/ validateTemperature(d.outdoorTemp)

\* ---------------------------------------------------------------------
\* C7. No frame whose gps is present with a non-numeric or out-of-range
\* coordinate is stored or published.
C7_NoBadGpsIngested ==
    \A d \in Stored \cup Forwarded : d.gps.present => validateGPS(d.gps)

\* ---------------------------------------------------------------------
\* C8. No frame whose licensePlate is missing or does not match the plate
\* pattern is stored or published, and none registers its socket.
C8_InvalidPlateRejected ==
    /\ \A d \in Stored \cup Forwarded : validateLicensePlate(d.licensePlate)
    /\ \A i \in 1..Len(connectedCars) : validateLicensePlate(Str(connectedCars[i].plate))

\* ---------------------------------------------------------------------
\* C9. A message that does not parse is dropped whole: the step that
\* handles it inserts nothing, publishes nothing, suspends no handler,
\* leaves the registry as it is and leaves the socket OPEN, so that its
\* later frames are received.
C9_GarbageDropped ==
    [][\A c \in Conns, pubOk \in BOOLEAN :
         Receive(c, Garbage, pubOk) =>
            /\ UNCHANGED <<store, busData, handlers, connectedCars, outbox>>
            /\ readyState'[c] = "OPEN"]_vars

\* A socket identified and then sent garbage: it is still OPEN and still
\* registered by the frame that came before the garbage.
C9_Witness ==
    \E e \in errors :
       /\ e.at = "parse"
       /\ readyState[e.ws] = "OPEN"
       /\ MapHas(connectedCars, e.ws)
       /\ EntryOf(e.ws).at < e.n

\* ---------------------------------------------------------------------
\* C10. Frames of one socket are handled one at a time in arrival order:
\* no two handlers of the same socket are in flight together, and the
\* store records and the bus publications of a socket are in receipt order.
C10_OneAtATimeInOrder ==
    /\ \A g, h \in handlers : g.ws = h.ws => g = h
    /\ InOrder(store)
    /\ InOrder(busData)


\* ---------------------------------------------------------------------
\* C11. Closing is idempotent: a close event for a socket that is CLOSED
\* already leaves the registry and the session count of /health as the
\* first close left them; the count goes down only in the step that closes
\* a registered socket, by exactly one, and the entry removed is that
\* socket's, so it never goes down for a socket that was not registered.
C11_CloseIdempotent ==
    [][/\ \A c \in Conns :
             (readyState[c] = "CLOSED" /\ readyState' = readyState) =>
                (MapHas(connectedCars', c) <=> MapHas(connectedCars, c))
       /\ HealthConnectedCars' < HealthConnectedCars =>
             \E c \in Conns :
                /\ readyState[c] = "CLOSING" /\ readyState'[c] = "CLOSED"
                /\ MapHas(connectedCars, c)
                /\ connectedCars' = MapDelete(connectedCars, c)
                /\ HealthConnectedCars' = HealthConnectedCars - 1
       /\ \A c \in Conns :
             (readyState[c] = "CLOSING" /\ readyState'[c] = "CLOSED"
              /\ ~MapHas(connectedCars, c)) => connectedCars' = connectedCars]_vars

\* Socket 1 identified, was closed and is out of the registry, where a
\* repeated close event finds it; socket 2 is registered and is closing, and
\* the session count is 1.
C11_Witness ==
    /\ readyState[1] = "CLOSED"
    /\ ~MapHas(connectedCars, 1)
    /\ \E d \in Stored : d.ws = 1 /\ Truthy(d.licensePlate)
    /\ readyState[2] = "CLOSING"
    /\ MapHas(connectedCars, 2)
    /\ HealthConnectedCars = 1


C13_FailureIsContained ==
    [][\A e \in errors' \ errors :
         e.at \in {"store", "publish"} =>
            /\ readyState' = readyState
            /\ connectedCars' = connectedCars
            /\ \A plate \in AllPlates : FindOpen(Str(plate))' = FindOpen(Str(plate))
            /\ \A h \in handlers : h.n # e.n => h \in handlers'
            /\ Len(store') >= Len(store) /\ SubSeq(store', 1, Len(store)) = store
            /\ Len(busData') >= Len(busData) /\ SubSeq(busData', 1, Len(busData)) = busData]_vars

\* The first frame of a socket failed at the store, the socket is still
\* OPEN, registered and the one the lookup for its plate selects, and its
\* next frame is in the store and on the bus; the other socket is OPEN too.
C13_Witness ==
    \E e \in errors :
       /\ e.at = "store"
       /\ readyState[e.ws] = "OPEN"
       /\ MapHas(connectedCars, e.ws)
       /\ FindOpen(Str(MapGet(connectedCars, e.ws))) = {e.ws}
       /\ \E d \in Stored : d.ws = e.ws /\ d.n > e.n
       /\ \E p \in Forwarded : p.ws = e.ws /\ p.n > e.n
       /\ \E c \in Conns \ {e.ws} : readyState[c] = "OPEN"


C15_MissingCommandRejected ==
    /\ \A q \in apiPending : Truthy(q.command)
    /\ \A i \in 1..Len(busCmds) : Truthy(busCmds[i].data.command)
    /\ \A p \in CommandsSent :
          outbox[p[1]][p[2]].origin = "api" => Truthy(outbox[p[1]][p[2]].command)


\* ---------------------------------------------------------------------
\* C16. A socket enters the registry only in the step that receives, on
\* that socket, a frame with a truthy licensePlate; a command message of
\* any origin is sent only to a socket that is in the registry; and the
\* connected-cars list, its count and the session count of /health hold
\* one plate per registered socket and nothing else. A socket that never
\* sent a frame with a plate is therefore in none of them.
C16_AnonymousExcluded ==
    [][/\ \A c \in Conns :
             (MapHas(connectedCars', c) /\ ~MapHas(connectedCars, c)) =>
                \E f \in Frames, pubOk \in BOOLEAN :
                   Receive(c, f, pubOk) /\ Truthy(f.licensePlate)
       /\ \A c \in Conns :
             (outbox'[c] # outbox[c] /\ readyState[c] # "NONE") => MapHas(connectedCars, c)
       /\ ConnectedCarsCount' = Cardinality({ c \in Conns : MapHas(connectedCars', c) })
       /\ HealthConnectedCars' = ConnectedCarsCount'
       /\ \A i \in 1..ConnectedCarsCount' :
             /\ ConnectedCarsList'[i] # <<>>
             /\ \E c \in Conns : MapHas(connectedCars', c) /\
                                  MapGet(connectedCars', c) = ConnectedCarsList'[i]]_vars

\* Socket 1 sent a frame without a plate, which is stored; socket 2
\* identified as ABC-123 and was sent a command. Socket 1 is OPEN, is not in
\* the registry, was sent nothing but connection_confirmed, and the list is
\* ABC-123 alone with count 1.
C16_Witness ==
    /\ readyState[1] = "OPEN"
    /\ \E d \in Stored : d.ws = 1 /\ d.licensePlate = Undef
    /\ \A d \in Stored : d.ws = 1 => ~Truthy(d.licensePlate)
    /\ ~MapHas(connectedCars, 1)
    /\ \A i \in 1..Len(outbox[1]) : outbox[1][i].type = "connection_confirmed"
    /\ \E i \in 1..Len(outbox[2]) : outbox[2][i].type # "connection_confirmed"
    /\ ConnectedCarsList = <<ABC123>>
    /\ ConnectedCarsCount = 1
    /\ HealthConnectedCars = 1


\* ---------------------------------------------------------------------
\* C17. Every message the gateway sends on a socket has type "command" or
\* "connection_confirmed", whichever origin the command came from.
C17_OneCommandType ==
    \A p \in Sent : outbox[p[1]][p[2]].type \in {"command", "connection_confirmed"}


\* ---------------------------------------------------------------------
\* C18. No queue, no retry: once the handler that routes a command has run
\* to its end (a bus or cloud message has been handled, an API request has
\* been answered) without sending it to any socket, that command is never
\* sent to a socket afterwards.
C18_NeverSentLater ==
    [][\A id \in 1..MaxCmds :
         (/\ id <= nCmds
          /\ \A q \in apiPending : q.cmd # id
          /\ SentFor(id) = {}) => SentFor(id)' = {}]_vars


\* ---------------------------------------------------------------------
\* Helpers: the records of frame n in the store, and the failed inserts of
\* frame n.
RecordsOf(n) == { j \in 1..Len(store) : store[j].n = n }
StoreErrorsOf(n) == { e \in errors : e.n = n /\ e.at = "store" }

\* C19 as claimed. Every frame that was taken in (it registered its socket)
\* and whose handler has finished was handed to the store exactly once,
\* as a record or as an insert that failed, and every record has the
\* server's timestamp.
C19_ExactlyOneRecord ==
    /\ \A i \in 1..Len(connectedCars) :
          (\A h \in handlers : h.n # connectedCars[i].at) =>
             Cardinality(RecordsOf(connectedCars[i].at))
               + Cardinality(StoreErrorsOf(connectedCars[i].at)) = 1
    /\ \A d \in Stored : d.timestamp = Str(ServerTime)

\* C19 as amended. With a store client every frame is, at any time, in
\* exactly one of four places: rejected by JSON.parse, suspended at its
\* insertOne, in the store as one record, or logged as a failed insert;
\* without a store client nothing is ever inserted. A record holds the
\* fields of a frame with timestamp set by the server, never the sender's.
C19_AtMostOneServerStamped ==
    /\ mongoClient =>
          \A n \in 1..nFrames :
             Cardinality({ e \in errors : e.n = n /\ e.at = "parse" })
               + Cardinality({ h \in handlers : h.n = n })
               + Cardinality(RecordsOf(n))
               + Cardinality(StoreErrorsOf(n)) = 1
    /\ ~mongoClient => (store = <<>> /\ handlers = {})
    /\ \A d \in Stored :
          /\ d.timestamp = Str(ServerTime)
          /\ \E f \in Frames : f.parses /\ d = Document(d.n, d.ws, f)

\* The frame that carries the sender's timestamp is in the store, with the
\* server's timestamp and its other fields as sent.
C19_Witness ==
    \E d \in Stored :
       /\ d.licensePlate = Str(ABC123)
       /\ d.outdoorTemp = Num(15)
       /\ d.gps = Gps(Num(60), Num(24))
       /\ d.timestamp = Str(ServerTime)


\* ---------------------------------------------------------------------
\* C20. What is published for a frame is what is stored for it: the
\* publication and the record of the same frame agree on every field, the
\* timestamp included, and the publication is on the topic of the frame's
\* plate.
C20_PublishedIsStored ==
    \A p \in Forwarded :
       /\ p.licensePlate.t = "string" /\ p.topic = p.licensePlate.s
       /\ \A d \in Stored :
             d.n = p.n =>
                /\ d.licensePlate = p.licensePlate
                /\ d.indoorTemp = p.indoorTemp
                /\ d.outdoorTemp = p.outdoorTemp
                /\ d.gps = p.gps
                /\ d.timestamp = p.timestamp


\* ---------------------------------------------------------------------
\* C21. The step that handles a cloud message whose payload has no command
\* (or does not parse) sends nothing and changes nothing but the count of
\* messages received; whenever a step puts a cloud_command on a socket, it
\* carries a truthy command.
C21_CloudNeedsCommand ==
    [][/\ \A p \in Plates, d \in CloudMessages :
             (CloudMessageArrives(p, d) /\ ~(d.parses /\ Truthy(d.command))) =>
                /\ UNCHANGED <<outbox, readyState, connectedCars>>
                /\ UNCHANGED <<apiPending, busCmds, published, responses>>
                /\ UNCHANGED startVars
                /\ UNCHANGED ingestVars
       /\ \A c \in Conns :
             (/\ Len(outbox'[c]) = Len(outbox[c]) + 1
              /\ outbox'[c][Len(outbox'[c])].type = "cloud_command") =>
                Truthy(outbox'[c][Len(outbox'[c])].command)]_vars

\* The cloud bridge is connected, a socket registered for ABC-123 is OPEN,
\* messages were received and none was sent on as a command: no API request
\* was made and nothing was published.
C21_Witness ==
    /\ mqttConnected
    /\ nCmds >= 1
    /\ FindOpen(Str(ABC123)) # {}
    /\ CommandsSent = {}
    /\ apiPending = {} /\ responses = {} /\ published = {}


\* ---------------------------------------------------------------------
\* C22. The step that handles a bus message JSON.parse rejects sends
\* nothing, leaves the registry and everything else but the count of
\* messages received as it was, and leaves the subscription in place, so
\* that the listener runs for the next message.
C22_MalformedBusDropped ==
    [][BusCommandArrives(BadCommandData) =>
         /\ UNCHANGED <<outbox, readyState, connectedCars>>
         /\ UNCHANGED <<apiPending, busCmds, published, responses>>
         /\ UNCHANGED ingestVars
         /\ UNCHANGED startVars
         /\ subscribed']_vars

\* Two bus messages arrived with no cloud bridge and no API request: the
\* first put nothing on any socket, the second was delivered as a command
\* to the OPEN socket registered for its plate.
C22_Witness ==
    /\ subscribed /\ ~mqttConnected
    /\ apiPending = {} /\ responses = {}
    /\ nCmds = 2
    /\ SentFor(1) = {}
    /\ \E p \in SentFor(2) :
          /\ outbox[p[1]][p[2]].origin = "bus"
          /\ outbox[p[1]][p[2]].command = Str(StartHeating)
          /\ FindOpen(Str(ABC123)) = {p[1]}


\* ---------------------------------------------------------------------
\* C23 as claimed. Whatever non-empty name a request carries, when it is
\* answered its command has been published on the plate's command topic
\* and, if an OPEN socket is registered for the plate, a message has been
\* sent to it.
C23_AnyNamePublishedAndDelivered ==
    [][\A r \in responses' \ responses :
         /\ [cmd |-> r.cmd, topic |-> r.plate.s] \in published'
         /\ \A c \in FindOpen(r.plate) : Len(outbox'[c]) = Len(outbox[c]) + 1]_vars

\* C23 as amended. No name is refused: every request is answered 200, or
\* 500 when its publish was rejected. A request answered 200 was published
\* if the bus client exists, and its command is sent, under the name the
\* request carried, to the socket the lookup selects; the message put on
\* the command topic carries that name too.
C23_AnyNameRouted ==
    [][/\ \A r \in responses' \ responses :
             /\ r.status \in {200, 500}
             /\ r.status = 200 =>
                   /\ redisClient => [cmd |-> r.cmd, topic |-> r.plate.s] \in published
                   /\ \A q \in apiPending :
                         q.cmd = r.cmd =>
                            outbox' = Send(FindOpen(r.plate),
                                           [type |-> "command", command |-> q.command,
                                            origin |-> "api", cmd |-> r.cmd])
                   /\ (\A q \in apiPending : q.cmd # r.cmd) =>
                         \E name \in CommandNames :
                            /\ ApiRequest(r.plate, name)
                            /\ outbox' = Send(FindOpen(r.plate),
                                              [type |-> "command", command |-> name,
                                               origin |-> "api", cmd |-> r.cmd])
       /\ (published' # published /\ subscribed) =>
             \E q \in apiPending :
                busCmds' = Append(busCmds,
                              [cmd |-> q.cmd,
                               data |-> CommandData(q.plate, q.command, Str(ServerTime))])]_vars

\* A request named "?!" was published, was answered 200 with directSent and
\* its command is on a socket under that name.
C23_Witness ==
    \E r \in responses :
       /\ r.status = 200 /\ r.directSent
       /\ r.cmd \in PublishedIds
       /\ \E p \in SentFor(r.cmd) :
             /\ outbox[p[1]][p[2]].origin = "api"
             /\ outbox[p[1]][p[2]].command = Str(Odd)


\* ---------------------------------------------------------------------
\* C24. The web server's command endpoint never answers the valid command
\* of its test suite with 400, and answers the invalid one with 400 and
\* publishes nothing for it.
C24_InvalidCommandRejected ==
    \A r \in webResponses :
       r.kind = "command" =>
          /\ r.command = Str(StartHeating) => r.status # 400
          /\ r.command = Str(InvalidCommand) =>
                /\ r.status = 400
                /\ \A i \in 1..Len(webBus) : webBus[i].req # r.req

\* ---------------------------------------------------------------------
\* C29. GET /api/car/:licensePlate answers 404 for a plate that is neither
\* in both databases nor a mock plate, and 200 with car data for a plate
\* that is: the databases' data when both have it, the mock record of the
\* plate otherwise, whether the databases answer or not.
InDatabases(plate) == webRealtime[plate] # "none" /\ plate \in webStatic

C29_KnownPlateAnswered ==
    \A r \in webResponses :
       r.kind = "car" =>
          /\ (~InDatabases(r.plate) /\ toUpperCase(r.plate) \notin MockPlates) =>
                r.status = 404
          /\ toUpperCase(r.plate) \in MockPlates =>
                /\ r.status = 200
                /\ r.source \in {"db", "mock"}
          /\ r.source = "db" => InDatabases(r.plate)


\* ---------------------------------------------------------------------
\* C25. The session count follows the sockets: a socket is in the registry
\* from the step that receives its first frame with a plate until the step
\* in which its close event fires, whatever plate it or any other socket
\* carries; the count of /health and of /api/connected-cars is the number
\* of sockets in the registry, all of them accepted and not CLOSED.
C25_CountIsLiveIdentified ==
    [][/\ \A c \in Conns :
             /\ (\E f \in Frames, pubOk \in BOOLEAN :
                    Truthy(f.licensePlate) /\ Receive(c, f, pubOk)) =>
                   MapHas(connectedCars', c)
             /\ (~MapHas(connectedCars, c) /\ MapHas(connectedCars', c)) =>
                   \E f \in Frames, pubOk \in BOOLEAN :
                      Truthy(f.licensePlate) /\ Receive(c, f, pubOk)
             /\ (MapHas(connectedCars, c) /\ ~MapHas(connectedCars', c)) <=>
                   (/\ MapHas(connectedCars, c)
                    /\ readyState[c] # "CLOSED" /\ readyState'[c] = "CLOSED")
             /\ MapHas(connectedCars', c) => readyState'[c] \in {"OPEN", "CLOSING"}
       /\ HealthConnectedCars' = Cardinality({ c \in Conns : MapHas(connectedCars', c) })
       /\ ConnectedCarsCount' = HealthConnectedCars']_vars

\* Two sockets identified with the same plate and neither has closed: the
\* count is 2.
C25_Witness ==
    /\ \A c \in {1, 2} : readyState[c] \in {"OPEN", "CLOSING"} /\ MapHas(connectedCars, c)
    /\ MapGet(connectedCars, 1) = MapGet(connectedCars, 2)
    /\ HealthConnectedCars = 2
    /\ ConnectedCarsCount = 2


\* ---------------------------------------------------------------------
\* C26. When connecting to the store or to the bus fails at startup, the
\* status reports that dependency as down from then on; the cloud bridge is
\* reported up only once its connection is established.
C26_FailedConnectReportedDown ==
    [][/\ MongoConnectSettles(FALSE) => HealthMongodb' = "disconnected"
       /\ RedisConnectSettles(FALSE) => HealthRedis' = "disconnected"
       /\ HealthMqtt' = "connected" => mqttConnected']_vars


\* ---------------------------------------------------------------------
\* C27. Every accepted socket is sent exactly one connection_confirmed and
\* it is the first message the gateway sends on it: every later message is
\* a command (of type command or cloud_command), and nothing is sent on a
\* socket that was not accepted.
C27_ConfirmedOnceAndFirst ==
    \A c \in Conns :
       IF readyState[c] = "NONE"
         THEN outbox[c] = <<>>
         ELSE /\ Len(outbox[c]) >= 1
              /\ outbox[c][1].type = "connection_confirmed"
              /\ \A i \in 2..Len(outbox[c]) :
                    outbox[c][i].type \in {"command", "cloud_command"}

\* A socket that was sent a command of each type after its confirmation, while the
\* other socket was accepted and sent nothing but its confirmation.
C27_Witness ==
    \E c, d \in Conns :
       /\ c # d
       /\ Len(outbox[c]) = 3
       /\ outbox[c][2].type = "command" /\ outbox[c][3].type = "cloud_command"
       /\ readyState[d] # "NONE"
       /\ Len(outbox[d]) = 1

C30_CloseTouchesOwnEntryOnly ==
    [][\A a \in Conns :
         (readyState[a] = "CLOSING" /\ readyState'[a] = "CLOSED") =>
            /\ connectedCars' = SelectSeq(connectedCars, LAMBDA e : e.ws # a)
            /\ \A b \in Conns \ {a} :
                  /\ readyState'[b] = readyState[b]
                  /\ MapHas(connectedCars, b) =>
                        /\ MapHas(connectedCars', b)
                        /\ MapGet(connectedCars', b) = MapGet(connectedCars, b)
            /\ outbox' = outbox]_vars

\* Both sockets identified as ABC-123, the second has closed and its entry
\* is gone, the first is still OPEN and registered as ABC-123.
C30_Witness ==
    /\ readyState[2] = "CLOSED"
    /\ ~MapHas(connectedCars, 2)
    /\ readyState[1] = "OPEN"
    /\ MapHas(connectedCars, 1)
    /\ MapGet(connectedCars, 1) = ABC123
    /\ \E i \in 1..Len(store) : store[i].ws = 2 /\ store[i].licensePlate = Str(ABC123)


\* ---------------------------------------------------------------------
\* C31. The Map holds at most one entry per socket and its plate is that of
\* the latest identifying frame the socket sent; a command is sent only to
\* a socket whose entry carries the plate the command is addressed to, so
\* a socket that identified as one plate and then as another receives the
\* commands of the second plate only.
C31_OneEntryLatestPlate ==
    [][/\ \A i, j \in 1..Len(connectedCars') :
             connectedCars'[i].ws = connectedCars'[j].ws => i = j
       /\ \A i \in 1..Len(connectedCars') :
             /\ \A k \in 1..Len(store') :
                   store'[k].ws = connectedCars'[i].ws =>
                      /\ store'[k].n <= connectedCars'[i].at
                      /\ store'[k].n = connectedCars'[i].at =>
                            store'[k].licensePlate = Str(connectedCars'[i].plate)
             /\ \A h \in handlers' :
                   h.ws = connectedCars'[i].ws =>
                      /\ h.n <= connectedCars'[i].at
                      /\ h.n = connectedCars'[i].at =>
                            h.frame.licensePlate = Str(connectedCars'[i].plate)
       /\ \A c \in Conns :
             (readyState[c] # "NONE" /\ outbox'[c] # outbox[c]) =>
                \E i \in 1..Len(connectedCars) :
                   /\ connectedCars[i].ws = c
                   /\ Str(connectedCars[i].plate) \in Plates]_vars

\* Socket 1 identified as ABC-123 and then as XYZ-789: its one entry says
\* XYZ-789, an API command for ABC-123 found no socket and socket 1 was sent
\* nothing but its confirmation.
C31_Witness ==
    /\ \E i, j \in 1..Len(store) :
          /\ store[i].ws = 1 /\ store[i].n = 1 /\ store[i].licensePlate = Str(ABC123)
          /\ store[j].ws = 1 /\ store[j].n = 2 /\ store[j].licensePlate = Str(XYZ789)
    /\ Len(connectedCars) = 1
    /\ MapGet(connectedCars, 1) = XYZ789
    /\ readyState[1] = "OPEN"
    /\ \E r \in responses : r.plate = Str(ABC123) /\ r.status = 200 /\ ~r.directSent
    /\ Len(outbox[1]) = 1


\* ---------------------------------------------------------------------
\* C32. CLOSED is terminal: from the step that handles a socket's close
\* event on, the socket stays CLOSED, has no entry in the Map and is sent
\* nothing, also while a handler of one of its frames is still suspended at
\* its insert and when that handler resumes.
C32_ClosedIsTerminal ==
    [][\A c \in Conns :
         /\ readyState[c] = "CLOSED" => readyState'[c] = "CLOSED"
         /\ readyState'[c] = "CLOSED" =>
               /\ ~MapHas(connectedCars', c)
               /\ outbox'[c] = outbox[c]]_vars

\* A socket identified as ABC-123 is CLOSED while the handler of its frame
\* is still suspended; a command for ABC-123 was routed since and went to
\* no socket.
C32_Witness ==
    \E h \in handlers :
       /\ readyState[h.ws] = "CLOSED"
       /\ h.frame.licensePlate = Str(ABC123)
       /\ ~MapHas(connectedCars, h.ws)
       /\ Len(outbox[h.ws]) = 1
       /\ \E r \in responses : r.plate = Str(ABC123) /\ ~r.directSent


\* ---------------------------------------------------------------------
\* Helpers of the routing statements: the sockets a step sends a command
\* to, and the step of an API request that runs its lookup loop.
Receivers(old, new) ==
    { c \in Conns : readyState[c] # "NONE" /\ new[c] # old[c] }

\* ---------------------------------------------------------------------
\* C33. Lookup and send are one step: a command is sent only to a socket
\* that, in the state the sending step starts from, is in the Map and is
\* the socket the lookup for its plate selects; and the step that resumes
\* an API request after its publish sends to the socket the lookup selects
\* then, and reports directSent accordingly.
C33_LookupAndSendAtomic ==
    [][/\ \A c \in Receivers(outbox, outbox') :
             /\ MapHas(connectedCars, c)
             /\ MapHas(connectedCars', c)
             /\ \A plate \in AllPlates :
                   MapGet(connectedCars, c) = plate => FindOpen(Str(plate)) = {c}
       /\ \A r \in apiPending :
             r \notin apiPending' =>
                \A plate \in AllPlates, a \in responses' \ responses :
                   (r.plate = Str(plate) /\ a.status = 200) =>
                      /\ Receivers(outbox, outbox') = FindOpen(Str(plate))
                      /\ a.directSent = (FindOpen(Str(plate)) # {})]_vars

\* Socket 1 identified as ABC-123 first and is no longer OPEN, socket 2
\* identified as ABC-123 after it; an API command that was published was
\* then sent to socket 2 and not to socket 1.
C33_Witness ==
    /\ MapHas(connectedCars, 1) /\ MapHas(connectedCars, 2)
    /\ EntryOf(1).plate = ABC123 /\ EntryOf(2).plate = ABC123
    /\ EntryOf(1).at < EntryOf(2).at
    /\ readyState[1] = "CLOSING"
    /\ \E r \in responses :
          /\ r.directSent /\ r.cmd \in PublishedIds
          /\ \E i \in 1..Len(outbox[2]) :
                outbox[2][i].origin = "api" /\ outbox[2][i].cmd = r.cmd
    /\ \A i \in 1..Len(outbox[1]) : outbox[1][i].origin # "api"


\* ---------------------------------------------------------------------
\* C34. A command is sent only on a socket that is OPEN when it is sent:
\* entries whose socket is CLOSING or CLOSED are skipped, and a request
\* whose plate has no OPEN socket is answered directSent false.
C34_SentOnlyWhenOpen ==
    [][/\ \A c \in Receivers(outbox, outbox') : readyState[c] = "OPEN"
       /\ \A a \in responses' \ responses :
             \A plate \in AllPlates :
                (a.plate = Str(plate) /\ OpenFor(plate) = {}) => ~a.directSent]_vars

\* The only socket registered for ABC-123 is CLOSING, its close event not
\* yet handled; an API command for ABC-123 was answered directSent false,
\* a second command was routed too, and the socket was sent neither.
C34_Witness ==
    /\ RegisteredFor(ABC123) # {}
    /\ \A c \in RegisteredFor(ABC123) : readyState[c] = "CLOSING" /\ Len(outbox[c]) = 1
    /\ \E r \in responses : r.plate = Str(ABC123) /\ r.status = 200 /\ ~r.directSent
    /\ nCmds = 2

\* ---------------------------------------------------------------------
\* C35. One routing step sends one message at most: whatever the number of
\* OPEN sockets registered for the plate, a step changes the outbound
\* messages of at most one socket, and by one message.
C35_AtMostOneReceiver ==
    [][/\ Cardinality({ c \in Conns : outbox'[c] # outbox[c] }) <= 1
       /\ \A c \in Conns : Len(outbox'[c]) <= Len(outbox[c]) + 1]_vars

\* Two OPEN sockets are registered for ABC-123 and two commands were
\* routed: the first registered socket was sent both and the second none.
C35_Witness ==
    /\ \A c \in {1, 2} : readyState[c] = "OPEN" /\ MapHas(connectedCars, c)
    /\ EntryOf(1).plate = ABC123 /\ EntryOf(2).plate = ABC123
    /\ EntryOf(1).at < EntryOf(2).at
    /\ Len(outbox[1]) = 3
    /\ Len(outbox[2]) = 1


\* ---------------------------------------------------------------------
\* C36 as claimed. Every direct send of the API follows a successful
\* publish of its request, every result is given for a published request,
\* and a request answered with the error was sent to no socket.
C36_SendOnlyAfterPublish ==
    /\ \A p \in CommandsSent :
          outbox[p[1]][p[2]].origin = "api" => outbox[p[1]][p[2]].cmd \in PublishedIds
    /\ \A r \in responses :
          /\ r.status = 200 => r.cmd \in PublishedIds
          /\ r.status # 200 => SentFor(r.cmd) = {}

\* C36 as amended. With a bus client the direct send of a request happens
\* only in a step that starts with the request already published, and a
\* request whose publish is rejected is answered 500 in a step that sends
\* nothing, the request having reached neither the bus nor a socket.
\* Without a bus client nothing is published and the direct send and the
\* result are given in the step the request arrives.
C36_PublishAwaitedIfBusClient ==
    [][/\ \A c \in Receivers(outbox, outbox') :
             LET msg == outbox'[c][Len(outbox'[c])]
             IN  (msg.origin = "api" /\ redisClient) => msg.cmd \in PublishedIds
       /\ \A a \in responses' \ responses :
             /\ (a.status = 200 /\ redisClient) => a.cmd \in PublishedIds
             /\ (a.status = 200 /\ ~redisClient) =>
                   /\ nCmds' = nCmds + 1
                   /\ a.cmd = nCmds'
                   /\ published' = published
                   /\ a.cmd \notin PublishedIds
             /\ a.status # 200 =>
                   /\ a.status = 500
                   /\ redisClient
                   /\ outbox' = outbox
                   /\ a.cmd \notin PublishedIds
                   /\ \A p \in CommandsSent : outbox[p[1]][p[2]].cmd # a.cmd]_vars

\* A socket is OPEN and registered for ABC-123, the publish of an API
\* command for ABC-123 was rejected: the request was answered 500, nothing
\* was published and the socket was sent nothing but its confirmation.
C36_Witness ==
    /\ \E c \in OpenFor(ABC123) : Len(outbox[c]) = 1
    /\ \E r \in responses : r.plate = Str(ABC123) /\ r.status = 500
    /\ published = {}
    /\ redisClient


\* ---------------------------------------------------------------------
\* C37. No feedback loop: only the step of a suspended API request puts a
\* command on the bus; a step that handles a command from the subscription
\* or from the cloud bridge publishes nothing and, for the gateway's own
\* publication, takes it off the queue. One API request therefore causes
\* at most one publication, one run of the subscription listener and two
\* messages to sockets.
C37_NoFeedbackLoop ==
    [][/\ apiPending' = apiPending =>
             /\ published' = published
             /\ busCmds' # busCmds => (busCmds # <<>> /\ busCmds' = Tail(busCmds))
       /\ published' # published =>
             /\ Cardinality(published') = Cardinality(published) + 1
             /\ Len(busCmds') <= Len(busCmds) + 1
       /\ Cardinality(published') <= Cardinality(apiPending') + Cardinality(responses')
       /\ Len(busCmds') <= Cardinality(published')
       /\ \A p \in published' :
             /\ Cardinality({ i \in 1..Len(busCmds') : busCmds'[i].cmd = p.cmd }) <= 1
             /\ Cardinality({ q \in Sent' : /\ outbox'[q[1]][q[2]].type # "connection_confirmed"
                                             /\ outbox'[q[1]][q[2]].cmd = p.cmd }) <= 2]_vars

\* An API command was published, sent directly and handled once more by
\* the gateway's own subscription: two messages on the socket, the queue of
\* the subscription empty and no request pending.
C37_Witness ==
    /\ apiPending = {}
    /\ busCmds = <<>>
    /\ \E r \in responses :
          /\ r.directSent
          /\ Cardinality({ p \in published : p.cmd = r.cmd }) = 1
          /\ Cardinality(SentFor(r.cmd)) = 2
          /\ \E p \in SentFor(r.cmd) : outbox[p[1]][p[2]].origin = "bus"


\* ---------------------------------------------------------------------
\* C38. Startup is one sequence in one try: the Redis client is created
\* only after MongoDB connected, the command subscription only after Redis
\* connected, the MQTT client only after the subscription. When the MongoDB
\* connect fails, no Redis client, no subscription and no MQTT client exist
\* then or later, the HTTP server listens from that step on, and sockets
\* are accepted as before.
C38_StoreFailureSkipsTheRest ==
    [][/\ MongoConnectSettles(FALSE) =>
             /\ ~redisClient' /\ ~subscribed' /\ ~mqttClient' /\ ~mqttConnected'
             /\ Listening'
       /\ (Listening /\ ~redisClient) =>
             /\ UNCHANGED startVars
             /\ Listening'
       /\ redisClient' # redisClient => (startPc = "mongo" /\ startPc' = "redis")
       /\ subscribed' # subscribed => (startPc = "subscribe" /\ redisClient)
       /\ mqttClient' # mqttClient => (startPc = "subscribe" /\ subscribed')
       /\ mqttConnected' => mqttClient'
       /\ \A c \in Conns :
             (readyState[c] = "NONE" /\ readyState'[c] = "OPEN") =>
                Len(outbox'[c]) = 1]_vars

\* The MongoDB connect failed: its client object exists, nothing else was
\* created; a socket was accepted since and identified as ABC-123, and an
\* API command for ABC-123 was answered with directSent true.
C38_Witness ==
    /\ startPc = "failed"
    /\ mongoClient
    /\ ~redisClient /\ ~subscribed /\ ~mqttClient
    /\ \E c \in OpenFor(ABC123) :
          \E i \in 1..Len(outbox[c]) : outbox[c][i].origin = "api"
    /\ \E r \in responses : r.status = 200 /\ r.directSent


\* ---------------------------------------------------------------------
\* C39. On the seeded table and after every call, a row that is available
\* has NULL in the four renter columns; and a call that is to rent a car
\* out but brings no renter data throws before a query is issued and
\* leaves the table as it was.
C39_AvailableMeansNoRenter ==
    [][/\ \A p \in DOMAIN rentalInfo :
             /\ rentalInfo[p].is_available =>
                   rentalInfo[p] = RentalRow(TRUE, Null, Null, Null, Null)
             /\ rentalInfo'[p].is_available =>
                   rentalInfo'[p] = RentalRow(TRUE, Null, Null, Null, Null)
       /\ \A p \in RentalPlates, a \in IsAvailableValues, ok \in BOOLEAN :
             (~ToBoolean(a) /\ updateRentalAvailability(p, a, NoRenterData, ok)) =>
                /\ rentalInfo' = rentalInfo
                /\ rentalCalls'[Len(rentalCalls')].threw
                /\ ~rentalCalls'[Len(rentalCalls')].queried]_vars

\* XYZ-789, seeded as rented out, was made available and its renter columns
\* are NULL; the other call, to rent it out without renter data, threw
\* before its query.
C39_Witness ==
    /\ rentalInfo[XYZ789] = RentalRow(TRUE, Null, Null, Null, Null)
    /\ \E i, j \in 1..Len(rentalCalls) :
          /\ rentalCalls[i].licensePlate = XYZ789
          /\ ToBoolean(rentalCalls[i].isAvailable)
          /\ rentalCalls[i].rows = 1
          /\ rentalCalls[j].licensePlate = XYZ789
          /\ ~ToBoolean(rentalCalls[j].isAvailable)
          /\ ~rentalCalls[j].renterData.present
          /\ rentalCalls[j].threw /\ ~rentalCalls[j].queried

====
